---- MODULE Spec2Model ----
(***************************************************************************)
(* image-service-go: the upload / delete / get workflow, one step per      *)
(* repository or storage call so that concurrent requests interleave at    *)
(* the calls, as goroutines do.                                            *)
(*   Spec        : service.ImageService over repository.ImageRepository    *)
(*                 (MockImageRepository) and the MockS3 object store       *)
(*   SpecHandler : api.handlerImpl over its own ImageRepository            *)
(*                 (userImages) and storage.S3Client                       *)
(*   SpecSniff   : Processor.DetectImageFormat and the validation of an    *)
(*                 upload, on payloads of bytes                            *)
(*   SpecResize  : Processor.CalculateResizeDimensions                     *)
(*   SpecKey     : storage.BuildImageKey, on strings of characters         *)
(*   SpecURL     : S3Client.GetImageURL and MockS3.GetURL                  *)
(*   SpecOwners  : the service, with the requests of two owners            *)
(*   SpecConfig  : the two validateImageConfig functions                   *)
(*   SpecSizes   : one upload and one delete under a configured size set   *)
(*   SpecRepo    : MockImageRepository called directly, and                *)
(*                 ImageService.ValidateImageAccess                        *)
(*   SpecJWKS    : the JWKS cache of auth/jwt.go                           *)
(***************************************************************************)
EXTENDS Integers, Sequences, FiniteSets, TLC

\* ------------------------------------------------------------------ bounds
\* identities that ever call the service, and concurrent request goroutines
Owners == {"u1", "u2"}
\* the identities whose requests the behaviours of Spec interleave
Users == {"u1"}
Procs == {"p1", "p2"}
\* number of image GUIDs uuid.New() hands out in one behaviour
MaxUploads == 2
\* number of repository / storage calls that fail by injection in one behaviour
MaxFaults == 1
\* the same for the calls of the api handler
MaxHandlerFaults == 2
\* ImageService.maxSize, scaled (SetMaxImageSize makes it configurable)
maxSize == 2
\* api.MaxImageSize (15MB), scaled
MaxImageSize == 2

\* ------------------------------------------------------------ domain/image.go
NoImage ==
  [GUID |-> "", OwnerGUID |-> "", TypeName |-> "", SmallURL |-> "",
   MediumURL |-> "", LargeURL |-> "", CreatedAt |-> 0, UpdatedAt |-> 0,
   ContentType |-> ""]

NoUserImage ==
  [UserGUID |-> "", ImageGUID |-> "", SmallURL |-> "", MediumURL |-> "",
   LargeURL |-> "", UpdatedAt |-> 0]

\* NewImage(ownerGUID, typeName) at time now; the GUID it generates is
\* overwritten by the caller (image.GUID = imageGUID), so it is passed in.
NewImage(ownerGUID, typeName, guid, now) ==
  [NoImage EXCEPT !.GUID = guid, !.OwnerGUID = ownerGUID, !.TypeName = typeName,
                  !.CreatedAt = now, !.UpdatedAt = now]

\* a variant of ToUserImage that gives the medium URL as the small one
ToUserImageMediumAsSmall(i) ==
  [UserGUID |-> i.OwnerGUID, ImageGUID |-> i.GUID, SmallURL |-> i.MediumURL,
   MediumURL |-> i.MediumURL, LargeURL |-> i.LargeURL, UpdatedAt |-> i.UpdatedAt]

ToUserImage(i) ==
  [UserGUID |-> i.OwnerGUID, ImageGUID |-> i.GUID, SmallURL |-> i.SmallURL,
   MediumURL |-> i.MediumURL, LargeURL |-> i.LargeURL, UpdatedAt |-> i.UpdatedAt]

\* the n-th value of uuid.New(): fresh, never uuid.Nil ("")
NewUUID(n) == "g" \o ToString(n)

\* --------------------------------------------------------- storage/mock_s3.go
cdnBaseURL == "https://cdn.example.com"

GenerateUserImageKey(userGUID, guid, size) ==
  "images/user/" \o userGUID \o "/" \o guid \o "/" \o size \o ".jpg"

GetURL(key) == cdnBaseURL \o "/" \o key

\* a variant of Put that stores the object without its content type
PutNoContentType(objs, key, contentType) ==
  [k \in (DOMAIN objs) \cup {key} |-> IF k = key THEN "" ELSE objs[k]]

\* MockS3.Put: objects[key] = body, contentType[key] = contentType
Put(objs, key, contentType) ==
  [k \in (DOMAIN objs) \cup {key} |-> IF k = key THEN contentType ELSE objs[k]]

\* MockS3.Delete reports an error for a key it does not hold
DeleteMissing(objs, key) == key \notin DOMAIN objs

Delete(objs, key) == [k \in (DOMAIN objs) \ {key} |-> objs[k]]

\* ------------------------------------------- repository/image_repository.go
\* a variant of ownerTypeKey that leaves the owner out
ownerTypeKeyTypeOnly(ownerGUID, typeName) == typeName

ownerTypeKey(ownerGUID, typeName) == ownerGUID \o ":" \o typeName

\* MockImageRepository.SaveImage: the record as stored
SaveImageRecord(img, now) ==
  [img EXCEPT !.CreatedAt = IF img.CreatedAt = 0 THEN now ELSE img.CreatedAt,
              !.UpdatedAt = now]

SaveImageRejects(img) ==
  img.GUID = "" \/ img.OwnerGUID = "" \/ img.TypeName = ""

\* m.images[image.GUID] = image
SaveImageById(imgs, rec) ==
  [g \in (DOMAIN imgs) \cup {rec.GUID} |-> IF g = rec.GUID THEN rec ELSE imgs[g]]

\* m.byOwner[ownerKey] = image
SaveImageByOwner(byO, rec) ==
  [k \in (DOMAIN byO) \cup {ownerTypeKey(rec.OwnerGUID, rec.TypeName)} |->
     IF k = ownerTypeKey(rec.OwnerGUID, rec.TypeName) THEN rec ELSE byO[k]]

\* MockImageRepository.DeleteImage: delete(m.images, imageGUID)
DeleteImageById(imgs, guid) == [g \in (DOMAIN imgs) \ {guid} |-> imgs[g]]

\* MockImageRepository.DeleteImage: delete(m.byOwner, ownerKey) of the image found
DeleteImageByOwnerKey(byO, rec) ==
  [k \in (DOMAIN byO) \ {ownerTypeKey(rec.OwnerGUID, rec.TypeName)} |-> byO[k]]

\* ------------------------------------------------ service/image_service.go
\* the "user" image type of the configuration (sizes small, medium, large)
ConfigSizes == {"small", "medium", "large"}

\* a variant of sizes without "large"
sizesWithoutLarge == <<"small", "medium">>

\* DeleteUserImage: sizes := []string{"small", "medium", "large"}
sizes == <<"small", "medium", "large">>

Formats == {"image/jpeg", "image/png", "image/gif", "image/webp", "undetected"}

\* UploadUserImage up to ProcessImage: the error it returns, or "nil"
ValidateUpload(len, format, dimsOk, processOk) ==
  IF len = 0 THEN "ErrInvalidImage"
  ELSE IF len > maxSize THEN "ErrImageTooLarge"
  ELSE IF format = "undetected" THEN "ErrUnsupportedType"
  ELSE IF format # "image/jpeg" /\ format # "image/png" THEN "ErrUnsupportedType"
  ELSE IF ~dimsOk THEN "ErrProcessingFailed"
  ELSE IF ~processOk THEN "ErrProcessingFailed"
  ELSE "nil"

\* what the payloads of 0..maxSize+1 bytes of every format make of it:
\* the pairs <<error, detected content type>>
UploadOutcomes ==
  {<<ValidateUpload(len, format, dimsOk, processOk), format>> :
     len \in 0..(maxSize + 1), format \in Formats,
     dimsOk \in BOOLEAN, processOk \in BOOLEAN}

\* a variant of ContinueAfterDelete that gives up on an error other than not-found
AbortOnDeleteError(err) == err \in {"nil", "ErrNotFound"}

\* UploadUserImage after DeleteUserImage returned err: it only logs, and goes on
ContinueAfterDelete(err) == TRUE

\* a variant of SetURL whose switch has no case "large"
SetURLWithoutLarge(img, size, url) ==
  IF size = "small" THEN [img EXCEPT !.SmallURL = url]
  ELSE IF size = "medium" THEN [img EXCEPT !.MediumURL = url]
  ELSE img

\* UploadUserImage: switch size { case "small": image.SmallURL = url ... }
SetURL(img, size, url) ==
  IF size = "small" THEN [img EXCEPT !.SmallURL = url]
  ELSE IF size = "medium" THEN [img EXCEPT !.MediumURL = url]
  ELSE IF size = "large" THEN [img EXCEPT !.LargeURL = url]
  ELSE img

\* a variant of DeleteGetError without the errors.Is(err, ErrNotFound) branch
DeleteGetErrorWrapped(repoErr) == "ErrGetForDeletion"

\* DeleteUserImage, lines 217-225: what it returns when GetImageByOwner failed
\* with repoErr: the service's ErrNotFound for the repository's, else a wrapping
DeleteGetError(repoErr) ==
  IF repoErr = "repository.ErrNotFound" THEN "ErrNotFound" ELSE "ErrGetForDeletion"

\* a variant of AfterVariantDelete that leaves the loop at the first error
LeaveLoopOnVariantError(failed, idx) ==
  IF failed \/ idx = Len(sizes) THEN "del_row" ELSE "del_obj"

\* DeleteUserImage, lines 230-241: where the loop over sizes stands after the
\* Delete of sizes[idx]; an error is logged and the loop continues
AfterVariantDelete(failed, idx) ==
  IF idx = Len(sizes) THEN "del_row" ELSE "del_obj"

\* a variant of DeleteMetadataError that only logs the failure
DeleteMetadataErrorLogged(failed) == "nil"

\* DeleteUserImage, lines 244-253: what it returns after s.repo.DeleteImage
DeleteMetadataError(failed) == IF failed THEN "ErrDeleteMetadata" ELSE "nil"

\* a variant of AfterValidate that replaces the old image before looking at
\* the validation error
ReplaceBeforeValidate(err) == "del_get"

\* UploadUserImage, lines 64-111: every validation and processing error is
\* returned there, before the DeleteUserImage of line 117
AfterValidate(err) == IF err # "nil" THEN "done" ELSE "del_get"

\* ---------------------------------------------------------------- state
VARIABLES
  images,     \* MockImageRepository.images: GUID -> Image
  byOwner,    \* MockImageRepository.byOwner: ownerGUID:typeName -> Image
  objects,    \* MockS3.objects / contentType: key -> content type
  clock,      \* time.Now(), advancing at every reading
  nextId,     \* GUIDs handed out so far
  nfaults,    \* injected failures so far
  pc,         \* per request: where it stands
  op,         \* per request: "upload", "delete", "get"
  loc,        \* per request: its arguments and local variables
  res,        \* per request: what it returned
  hist,       \* per request: its history, for stating properties
  lastSaved,  \* per owner: GUID of the latest successful SaveImage
  userImages, \* api handler's repository, MockImageRepository.userImages
  arg,        \* the argument of a call of one of the pure functions
  ret,        \* what that call returned
  jwks        \* auth/jwt.go: the JWKS cache and the requests reading it

vars == <<images, byOwner, objects, clock, nextId, nfaults, pc, op, loc, res,
          hist, lastSaved, userImages, arg, ret, jwks>>

\* the call of a pure function that has not been made yet
NoCall == [fn |-> "none"]

storeVars == <<images, byOwner, objects, userImages>>

\* userGUID; imageGUID (the new GUID of an upload); cur (the image
\* DeleteUserImage fetched); idx (its index into sizes); image (the record an
\* upload builds); todo (the variants its range has not visited yet)
NoLoc ==
  [user |-> "", imageGUID |-> "", cur |-> NoImage, idx |-> 0, image |-> NoImage,
   todo |-> {}]

\* a request that returned keeps its argument only
Returned(l) == [NoLoc EXCEPT !.user = l.user]

\* pre: the owner's rows when the request began; written: keys this upload Put;
\* delIssued: keys this request asked the storage to delete; delErr: one of
\* those deletes reported an error; ioFail: "put" / "save" when that call of
\* the upload failed; rowDelErr: what the inline DeleteUserImage returned;
\* overlapped: another upload of the same owner was in flight meanwhile;
\* valErr: what the validation of this upload's payload came to
NoHist ==
  [pre |-> {}, written |-> {}, delIssued |-> {}, delErr |-> FALSE,
   ioFail |-> "none", rowDelErr |-> "none", overlapped |-> FALSE,
   valErr |-> "nil"]

RowsOf(imgs, u) == {imgs[g] : g \in {h \in DOMAIN imgs : imgs[h].OwnerGUID = u}}

Result(err, ui) == [err |-> err, image |-> ui]

\* auth/jwt.go lines 43-48: jwksCache is nil and jwksCacheTime the zero time;
\* cache: jwksCache # nil; now: the time; at: where each request stands in
\* getPublicKeyFromJWKS; fetches: the http.Get calls made so far
NoJWKS ==
  [cache |-> FALSE, cacheTime |-> 0, now |-> 0, fetches |-> 0,
   at |-> [p \in Procs |-> "idle"]]

\* the service and the handler before the first request
InitStores ==
  /\ jwks = NoJWKS
  /\ images = <<>>
  /\ byOwner = <<>>
  /\ objects = <<>>
  /\ clock = 1
  /\ nextId = 0
  /\ nfaults = 0
  /\ pc = [p \in Procs |-> "idle"]
  /\ op = [p \in Procs |-> "none"]
  /\ loc = [p \in Procs |-> NoLoc]
  /\ res = [p \in Procs |-> Result("none", NoUserImage)]
  /\ hist = [p \in Procs |-> NoHist]
  /\ lastSaved = [u \in Owners |-> ""]
  /\ userImages = <<>>

Init ==
  /\ InitStores
  /\ arg = NoCall
  /\ ret = NoCall

\* a call may fail by injection while the budget lasts
FaultChoices == IF nfaults < MaxFaults THEN {FALSE, TRUE} ELSE {FALSE}
Charge(fail) == nfaults' = IF fail THEN nfaults + 1 ELSE nfaults

Ready(p) == pc[p] \in {"idle", "done"}
\* request slots are interchangeable: a new request takes the first free one
Earlier(p) == IF p = "p2" THEN {"p1"} ELSE {}
Free(p) == Ready(p) /\ \A q \in Earlier(p) : ~Ready(q)
InUpload(q, u) == op[q] = "upload" /\ loc[q].user = u /\ ~Ready(q)

\* the request returns err and image ui
Return(p, err, ui) ==
  /\ pc' = [pc EXCEPT ![p] = "done"]
  /\ res' = [res EXCEPT ![p] = Result(err, ui)]
  /\ loc' = [loc EXCEPT ![p] = Returned(@)]

\* ------------------------------------------------------------ UploadUserImage
\* lines 62-114: validation, format, dimensions, processing, uuid.New()
UploadUserImage_Validate(p, u) ==
  /\ Free(p)
  /\ nextId < MaxUploads
  /\ \E o \in UploadOutcomes :
       LET err == o[1]
           format == o[2] IN
       /\ op' = [op EXCEPT ![p] = "upload"]
       /\ pc' = [pc EXCEPT ![p] = AfterValidate(err)]
       /\ IF err # "nil"
          THEN /\ res' = [res EXCEPT ![p] = Result(err, NoUserImage)]
               /\ loc' = [loc EXCEPT ![p] = [NoLoc EXCEPT !.user = u]]
               /\ hist' = [hist EXCEPT ![p] =
                    [NoHist EXCEPT !.pre = RowsOf(images, u), !.valErr = err]]
               /\ UNCHANGED nextId
          ELSE /\ res' = [res EXCEPT ![p] = Result("none", NoUserImage)]
               /\ loc' = [loc EXCEPT ![p] =
                    [NoLoc EXCEPT !.user = u, !.imageGUID = NewUUID(nextId),
                                  !.image = [NoImage EXCEPT !.ContentType = format]]]
               /\ nextId' = nextId + 1
               /\ hist' = [q \in Procs |->
                    IF q = p
                    THEN [NoHist EXCEPT !.pre = RowsOf(images, u),
                            !.overlapped = \E r \in Procs \ {p} : InUpload(r, u)]
                    ELSE [hist[q] EXCEPT !.overlapped = @ \/ InUpload(q, u)]]
  /\ UNCHANGED <<storeVars, clock, nfaults, lastSaved>>
  /\ UNCHANGED <<arg, ret, jwks>>

\* DeleteUserImage returns err: to the caller of Delete, or into UploadUserImage
\* (lines 117-130), which logs it, goes on and builds the new record.
\* l and h are the request's locals and history as the returning step leaves them.
FinishDelete(p, err, l, h) ==
  IF op[p] = "delete"
  THEN /\ pc' = [pc EXCEPT ![p] = "done"]
       /\ res' = [res EXCEPT ![p] = Result(err, NoUserImage)]
       /\ loc' = [loc EXCEPT ![p] = Returned(l)]
       /\ hist' = [hist EXCEPT ![p] = h]
       /\ UNCHANGED clock
  ELSE /\ hist' = [hist EXCEPT ![p] = [h EXCEPT !.rowDelErr = err]]
       /\ IF ContinueAfterDelete(err)
          THEN /\ pc' = [pc EXCEPT ![p] = "put"]
               /\ loc' = [loc EXCEPT ![p] =
                    [l EXCEPT !.cur = NoImage, !.idx = 0, !.todo = ConfigSizes,
                       !.image = [NewImage(l.user, "user", l.imageGUID, clock)
                                    EXCEPT !.ContentType = l.image.ContentType]]]
               /\ clock' = clock + 1
               /\ UNCHANGED res
          ELSE /\ pc' = [pc EXCEPT ![p] = "done"]
               /\ res' = [res EXCEPT ![p] = Result(err, NoUserImage)]
               /\ loc' = [loc EXCEPT ![p] = Returned(l)]
               /\ UNCHANGED clock

\* ------------------------------------------------------------ DeleteUserImage
DeleteUserImage_Begin(p, u) ==
  /\ Free(p)
  /\ loc' = [loc EXCEPT ![p] = [NoLoc EXCEPT !.user = u]]
  /\ hist' = [hist EXCEPT ![p] = [NoHist EXCEPT !.pre = RowsOf(images, u)]]
  /\ op' = [op EXCEPT ![p] = "delete"]
  /\ pc' = [pc EXCEPT ![p] = "del_get"]
  /\ res' = [res EXCEPT ![p] = Result("none", NoUserImage)]
  /\ UNCHANGED <<storeVars, clock, nextId, nfaults, lastSaved>>
  /\ UNCHANGED <<arg, ret, jwks>>

\* lines 217-226: s.repo.GetImageByOwner(ctx, userGUID, "user")
DeleteUserImage_GetImageByOwner(p) ==
  /\ pc[p] = "del_get"
  /\ \E fail \in FaultChoices :
       /\ Charge(fail)
       /\ IF fail
          THEN FinishDelete(p, DeleteGetError("injected"), loc[p], hist[p])
          ELSE IF ownerTypeKey(loc[p].user, "user") \notin DOMAIN byOwner
          THEN FinishDelete(p, DeleteGetError("repository.ErrNotFound"),
                            loc[p], hist[p])
          ELSE /\ loc' = [loc EXCEPT ![p] =
                    [@ EXCEPT !.cur = byOwner[ownerTypeKey(loc[p].user, "user")],
                              !.idx = 1]]
               /\ pc' = [pc EXCEPT ![p] = "del_obj"]
               /\ UNCHANGED <<res, clock, hist>>
  /\ UNCHANGED <<storeVars, nextId, op, lastSaved>>
  /\ UNCHANGED <<arg, ret, jwks>>

\* lines 229-241: s.storage.Delete(ctx, key) for sizes[idx]; errors are logged
DeleteUserImage_StorageDelete(p) ==
  /\ pc[p] = "del_obj"
  /\ LET key == GenerateUserImageKey(loc[p].user, loc[p].cur.GUID, sizes[loc[p].idx]) IN
     \E fail \in FaultChoices :
       /\ Charge(fail)
       /\ objects' = IF fail THEN objects ELSE Delete(objects, key)
       /\ hist' = [hist EXCEPT ![p] =
            [@ EXCEPT !.delIssued = @ \cup {key},
                      !.delErr = @ \/ fail \/ DeleteMissing(objects, key)]]
       /\ pc' = [pc EXCEPT ![p] =
            AfterVariantDelete(fail \/ DeleteMissing(objects, key), loc[p].idx)]
  /\ loc' = [loc EXCEPT ![p] = [@ EXCEPT !.idx = @ + 1]]
  /\ UNCHANGED <<images, byOwner, clock, nextId, op, res, lastSaved, userImages>>
  /\ UNCHANGED <<arg, ret, jwks>>

\* lines 244-253: s.repo.DeleteImage(ctx, image.GUID)
DeleteUserImage_RepoDeleteImage(p) ==
  /\ pc[p] = "del_row"
  /\ \E fail \in FaultChoices :
       /\ Charge(fail)
       /\ IF fail \/ loc[p].cur.GUID \notin DOMAIN images
          THEN /\ FinishDelete(p, DeleteMetadataError(TRUE), loc[p], hist[p])
               /\ UNCHANGED <<images, byOwner>>
          ELSE /\ images' = DeleteImageById(images, loc[p].cur.GUID)
               /\ byOwner' = DeleteImageByOwnerKey(byOwner, images[loc[p].cur.GUID])
               /\ FinishDelete(p, DeleteMetadataError(FALSE), loc[p], hist[p])
  /\ UNCHANGED <<objects, nextId, op, lastSaved, userImages>>
  /\ UNCHANGED <<arg, ret, jwks>>

\* lines 133-157: one iteration of "for size, variantData := range variants"
UploadUserImage_Put(p) ==
  /\ pc[p] = "put"
  /\ \E size \in loc[p].todo, fail \in FaultChoices :
       LET key == GenerateUserImageKey(loc[p].user, loc[p].imageGUID, size) IN
       /\ Charge(fail)
       /\ IF fail
          THEN /\ Return(p, "ErrStorageFailed", NoUserImage)
               /\ hist' = [hist EXCEPT ![p] = [@ EXCEPT !.ioFail = "put"]]
               /\ UNCHANGED objects
          ELSE /\ objects' = Put(objects, key, "image/jpeg")
               /\ loc' = [loc EXCEPT ![p] =
                    [@ EXCEPT !.image = SetURL(@, size, GetURL(key)),
                              !.todo = @ \ {size}]]
               /\ hist' = [hist EXCEPT ![p] = [@ EXCEPT !.written = @ \cup {key}]]
               /\ pc' = [pc EXCEPT ![p] =
                    IF loc[p].todo = {size} THEN "save" ELSE "put"]
               /\ UNCHANGED res
  /\ UNCHANGED <<images, byOwner, clock, nextId, op, lastSaved, userImages>>
  /\ UNCHANGED <<arg, ret, jwks>>

\* lines 160-170: s.repo.SaveImage(ctx, image), then image.ToUserImage()
UploadUserImage_SaveImage(p) ==
  /\ pc[p] = "save"
  /\ \E fail \in FaultChoices :
       /\ Charge(fail)
       /\ IF fail \/ SaveImageRejects(loc[p].image)
          THEN /\ Return(p, "ErrSaveMetadata", NoUserImage)
               /\ hist' = [hist EXCEPT ![p] = [@ EXCEPT !.ioFail = "save"]]
               /\ UNCHANGED <<images, byOwner, clock, lastSaved>>
          ELSE LET rec == SaveImageRecord(loc[p].image, clock) IN
               /\ images' = SaveImageById(images, rec)
               /\ byOwner' = SaveImageByOwner(byOwner, rec)
               /\ clock' = clock + 1
               /\ Return(p, "nil", ToUserImage(rec))
               /\ lastSaved' = [lastSaved EXCEPT ![loc[p].user] = rec.GUID]
               /\ UNCHANGED hist
  /\ UNCHANGED <<objects, nextId, op, userImages>>
  /\ UNCHANGED <<arg, ret, jwks>>

\* --------------------------------------------------------------- GetUserImage
\* lines 174-189: s.repo.GetImageByOwner(ctx, userGUID, "user")
GetUserImage(p, u) ==
  /\ Free(p)
  /\ \E fail \in FaultChoices :
       /\ Charge(fail)
       /\ loc' = [loc EXCEPT ![p] = [NoLoc EXCEPT !.user = u]]
       /\ hist' = [hist EXCEPT ![p] = [NoHist EXCEPT !.pre = RowsOf(images, u)]]
       /\ res' = [res EXCEPT ![p] =
            IF fail THEN Result("ErrGetUserImage", NoUserImage)
            ELSE IF ownerTypeKey(u, "user") \notin DOMAIN byOwner
            THEN Result("ErrNotFound", NoUserImage)
            ELSE Result("nil", ToUserImage(byOwner[ownerTypeKey(u, "user")]))]
  /\ op' = [op EXCEPT ![p] = "get"]
  /\ pc' = [pc EXCEPT ![p] = "done"]
  /\ UNCHANGED <<storeVars, clock, nextId, lastSaved>>
  /\ UNCHANGED <<arg, ret, jwks>>

Next ==
  \E p \in Procs :
    \/ \E u \in Users : UploadUserImage_Validate(p, u)
    \/ \E u \in Users : DeleteUserImage_Begin(p, u)
    \/ DeleteUserImage_GetImageByOwner(p)
    \/ DeleteUserImage_StorageDelete(p)
    \/ DeleteUserImage_RepoDeleteImage(p)
    \/ UploadUserImage_Put(p)
    \/ UploadUserImage_SaveImage(p)
    \/ \E u \in Users : GetUserImage(p, u)

Spec == Init /\ [][Next]_vars

\* the owner whose requests a request slot carries: the requests of two owners,
\* one slot each
SlotOwner == [p \in Procs |-> IF p = "p1" THEN "u1" ELSE "u2"]

\* the same requests, made by two owners side by side
NextOwners ==
  \E p \in Procs :
    \/ UploadUserImage_Validate(p, SlotOwner[p])
    \/ DeleteUserImage_Begin(p, SlotOwner[p])
    \/ DeleteUserImage_GetImageByOwner(p)
    \/ DeleteUserImage_StorageDelete(p)
    \/ DeleteUserImage_RepoDeleteImage(p)
    \/ UploadUserImage_Put(p)
    \/ UploadUserImage_SaveImage(p)

SpecOwners == Init /\ [][NextOwners]_vars

TypeOK ==
  /\ \A g \in DOMAIN images : images[g].GUID = g
  /\ nextId \in 0..MaxUploads
  /\ nfaults \in 0..(MaxFaults + MaxHandlerFaults)

\* ------------------------------------- api/user_image_handlers.go (handlerImpl)
\* the handler's own workflow over api.ImageStorage (storage.S3Client) and
\* api.ImageRepository (the MockImageRepository of mock_repository.go)

\* ImageProcessor.GetSupportedContentTypes
SupportedContentTypes == {"image/jpeg", "image/png"}

\* the Content-Type headers requests carry
ContentTypes == {"image/jpeg", "image/png", "image/gif", ""}

\* path.Join: the non-empty elements, separated by one slash
RECURSIVE JoinPath(_)
JoinPath(elems) ==
  IF elems = <<>> THEN ""
  ELSE LET rest == JoinPath(Tail(elems)) IN
       IF Head(elems) = "" THEN rest
       ELSE IF rest = "" THEN Head(elems)
       ELSE Head(elems) \o "/" \o rest

BuildImageKey(imageType, ownerGUID, imageGUID, size) ==
  JoinPath(<<"images", imageType, ownerGUID, imageGUID, size \o ".jpg">>)

\* S3Client.GetImageURL with a CDN base URL configured (no trailing slash),
\* for a key without leading slash
GetImageURL(key) == cdnBaseURL \o "/" \o key

\* S3Client.UploadImage: PutObject of the key
UploadImage(objs, key, contentType) ==
  [k \in (DOMAIN objs) \cup {key} |-> IF k = key THEN contentType ELSE objs[k]]

\* S3Client.DeleteImage: DeleteObject, no error for a key that is not there
DeleteImage(objs, key) == [k \in (DOMAIN objs) \ {key} |-> objs[k]]

\* MockImageRepository.SaveUserImage: the image it builds
SaveUserImageRecord(userID, imageID, smallURL, mediumURL, largeURL, now) ==
  [NoImage EXCEPT !.GUID = imageID, !.TypeName = "user", !.OwnerGUID = userID,
                  !.SmallURL = smallURL, !.MediumURL = mediumURL,
                  !.LargeURL = largeURL, !.CreatedAt = now, !.UpdatedAt = now]

\* m.userImages[userID] = image
SaveUserImage(uis, userID, rec) ==
  [k \in (DOMAIN uis) \cup {userID} |-> IF k = userID THEN rec ELSE uis[k]]

\* delete(m.userImages, userID)
DeleteUserImageRow(uis, userID) == [k \in (DOMAIN uis) \ {userID} |-> uis[k]]

ToUserImageResponse(img) ==
  [UserGUID |-> img.OwnerGUID, ImageGUID |-> img.GUID, SmallURL |-> img.SmallURL,
   MediumURL |-> img.MediumURL, LargeURL |-> img.LargeURL,
   UpdatedAt |-> img.UpdatedAt]

\* a variant of HandlerValidate without the check of the user id
HandlerValidateNoAuth(userID, contentType, len, processOk) ==
  IF contentType \notin SupportedContentTypes THEN "ErrInvalidContentType"
  ELSE IF len > MaxImageSize THEN "ErrImageTooLarge"
  ELSE IF len = 0 THEN "ErrNoImageProvided"
  ELSE IF ~processOk THEN "ErrProcessingFailed"
  ELSE "nil"

\* handlerImpl.UploadUserImage up to ProcessImage: the error it answers, or "nil"
HandlerValidate(userID, contentType, len, processOk) ==
  IF userID = "" THEN "ErrUnauthorized"
  ELSE IF contentType \notin SupportedContentTypes THEN "ErrInvalidContentType"
  ELSE IF len > MaxImageSize THEN "ErrImageTooLarge"
  ELSE IF len = 0 THEN "ErrNoImageProvided"
  ELSE IF ~processOk THEN "ErrProcessingFailed"
  ELSE "nil"

\* what the bodies of 0..MaxImageSize+1 bytes of every content type make of it
HandlerOutcomes(userID) ==
  {HandlerValidate(userID, contentType, len, processOk) :
     contentType \in ContentTypes, len \in 0..(MaxImageSize + 1),
     processOk \in BOOLEAN}

\* uploadProcessedImages: smallURL, mediumURL, largeURL of the upload
KeepURL(img, size, url) ==
  IF size = "small" THEN [img EXCEPT !.SmallURL = url]
  ELSE IF size = "medium" THEN [img EXCEPT !.MediumURL = url]
  ELSE [img EXCEPT !.LargeURL = url]

\* a variant of DeleteFilesAborts that goes on to the next variant
DeleteFilesGoesOn(failed) == FALSE

\* deleteImageFiles, lines 811-825: an error of DeleteImage is returned at once
DeleteFilesAborts(failed) == failed

\* respondWithError / respondWithJSON: the HTTP status the handler answers
\* with for each outcome
HandlerStatus(err) ==
  IF err = "nil" THEN 200
  ELSE IF err \in {"ErrInvalidContentType", "ErrNoImageProvided"} THEN 400
  ELSE IF err = "ErrUnauthorized" THEN 401
  ELSE IF err = "ErrImageNotFound" THEN 404
  ELSE IF err = "ErrImageTooLarge" THEN 413
  ELSE 500

\* a call of the handler's storage or repository may fail by injection
HandlerFaultChoices == IF nfaults < MaxHandlerFaults THEN {FALSE, TRUE} ELSE {FALSE}

\* a variant of CleanUpResult that reports the failure of the clean-up
CleanUpResultEscalated(putErr, delFailed) ==
  IF delFailed THEN "ErrCleanUpFailed" ELSE putErr

\* uploadProcessedImages, lines 790-801: "_ = h.storage.DeleteImage(...)"
\* drops the clean-up's error, the upload error is returned
CleanUpResult(putErr, delFailed) == putErr

\* the handler's record of the user, as a set
UserRows(uis, userID) == IF userID \in DOMAIN uis THEN {uis[userID]} ELSE {}

\* lines 394-429: user id, content type, body, uuid.New(), ProcessImage
Handler_UploadUserImage_Begin(p, userID) ==
  /\ Free(p)
  /\ nextId < MaxUploads
  /\ \E err \in HandlerOutcomes(userID) :
       /\ op' = [op EXCEPT ![p] = "upload"]
       /\ hist' = [hist EXCEPT ![p] =
            [NoHist EXCEPT !.pre = UserRows(userImages, userID), !.valErr = err]]
       /\ IF err # "nil"
          THEN /\ pc' = [pc EXCEPT ![p] = "done"]
               /\ res' = [res EXCEPT ![p] = Result(err, NoUserImage)]
               /\ loc' = [loc EXCEPT ![p] = [NoLoc EXCEPT !.user = userID]]
               /\ UNCHANGED nextId
          ELSE /\ pc' = [pc EXCEPT ![p] = "h_put"]
               /\ res' = [res EXCEPT ![p] = Result("none", NoUserImage)]
               /\ loc' = [loc EXCEPT ![p] =
                    [NoLoc EXCEPT !.user = userID, !.imageGUID = NewUUID(nextId),
                                  !.idx = 1]]
               /\ nextId' = nextId + 1
  /\ UNCHANGED <<storeVars, clock, nfaults, lastSaved>>
  /\ UNCHANGED <<arg, ret, jwks>>

\* uploadProcessedImages, lines 779-801: UploadImage of sizes[idx]; when it
\* fails after an earlier one succeeded, the clean-up of those follows
Handler_UploadImage(p) ==
  /\ pc[p] = "h_put"
  /\ LET size == sizes[loc[p].idx]
         key == BuildImageKey("user", loc[p].user, loc[p].imageGUID, size) IN
     \E fail \in HandlerFaultChoices :
       /\ Charge(fail)
       /\ IF fail
          THEN /\ hist' = [hist EXCEPT ![p] = [@ EXCEPT !.ioFail = "put"]]
               /\ UNCHANGED objects
               /\ IF loc[p].idx = 1
                  THEN Return(p, "ErrStorageFailed", NoUserImage)
                  ELSE /\ pc' = [pc EXCEPT ![p] = "h_undo"]
                       /\ loc' = [loc EXCEPT ![p] =
                            [@ EXCEPT !.idx = 1,
                               !.todo = {sizes[i] : i \in 1..(loc[p].idx - 1)}]]
                       /\ UNCHANGED res
          ELSE /\ objects' = UploadImage(objects, key, "image/jpeg")
               /\ loc' = [loc EXCEPT ![p] =
                    [@ EXCEPT !.image = KeepURL(@, size, GetImageURL(key)),
                              !.idx = @ + 1]]
               /\ hist' = [hist EXCEPT ![p] = [@ EXCEPT !.written = @ \cup {key}]]
               /\ pc' = [pc EXCEPT ![p] =
                    IF loc[p].idx = Len(sizes) THEN "h_save" ELSE "h_put"]
               /\ UNCHANGED res
  /\ UNCHANGED <<images, byOwner, userImages, clock, nextId, op, lastSaved>>
  /\ UNCHANGED <<arg, ret, jwks>>

\* uploadProcessedImages, lines 790 and 799-800: _ = h.storage.DeleteImage(...)
\* of the variants uploaded before the failure; its error is dropped
Handler_CleanUp(p) ==
  /\ pc[p] = "h_undo"
  /\ LET size == sizes[loc[p].idx]
         key == BuildImageKey("user", loc[p].user, loc[p].imageGUID, size) IN
     \E fail \in HandlerFaultChoices :
       /\ Charge(fail)
       /\ objects' = IF fail THEN objects ELSE DeleteImage(objects, key)
       /\ hist' = [hist EXCEPT ![p] =
            [@ EXCEPT !.delIssued = @ \cup {key}, !.delErr = @ \/ fail]]
       /\ IF loc[p].idx < Len(sizes) /\ sizes[loc[p].idx + 1] \in loc[p].todo
          THEN /\ loc' = [loc EXCEPT ![p] = [@ EXCEPT !.idx = @ + 1]]
               /\ UNCHANGED <<pc, res>>
          ELSE Return(p, CleanUpResult("ErrStorageFailed", hist[p].delErr \/ fail),
                      NoUserImage)
  /\ UNCHANGED <<images, byOwner, userImages, clock, nextId, op, lastSaved>>
  /\ UNCHANGED <<arg, ret, jwks>>

\* lines 442-451: h.repository.SaveUserImage, then image.ToUserImageResponse()
Handler_SaveUserImage(p) ==
  /\ pc[p] = "h_save"
  /\ \E fail \in HandlerFaultChoices :
       /\ Charge(fail)
       /\ IF fail
          THEN /\ Return(p, "ErrSaveMetadata", NoUserImage)
               /\ hist' = [hist EXCEPT ![p] = [@ EXCEPT !.ioFail = "save"]]
               /\ UNCHANGED <<userImages, clock, lastSaved>>
          ELSE LET rec == SaveUserImageRecord(loc[p].user, loc[p].imageGUID,
                            loc[p].image.SmallURL, loc[p].image.MediumURL,
                            loc[p].image.LargeURL, clock) IN
               /\ userImages' = SaveUserImage(userImages, loc[p].user, rec)
               /\ clock' = clock + 1
               /\ Return(p, "nil", ToUserImageResponse(rec))
               /\ lastSaved' = [lastSaved EXCEPT ![loc[p].user] = rec.GUID]
               /\ UNCHANGED hist
  /\ UNCHANGED <<images, byOwner, objects, nextId, op>>
  /\ UNCHANGED <<arg, ret, jwks>>

\* handlerImpl.GetUserImage, lines 455-480
Handler_GetUserImage(p, userID) ==
  /\ Free(p)
  /\ \E fail \in HandlerFaultChoices :
       /\ Charge(fail)
       /\ (userID = "" => ~fail)
       /\ res' = [res EXCEPT ![p] =
            IF userID = "" THEN Result("ErrUnauthorized", NoUserImage)
            ELSE IF fail THEN Result("ErrGetMetadata", NoUserImage)
            ELSE IF userID \notin DOMAIN userImages
            THEN Result("ErrImageNotFound", NoUserImage)
            ELSE Result("nil", ToUserImageResponse(userImages[userID]))]
  /\ loc' = [loc EXCEPT ![p] = [NoLoc EXCEPT !.user = userID]]
  /\ hist' = [hist EXCEPT ![p] =
       [NoHist EXCEPT !.pre = UserRows(userImages, userID)]]
  /\ op' = [op EXCEPT ![p] = "get"]
  /\ pc' = [pc EXCEPT ![p] = "done"]
  /\ UNCHANGED <<storeVars, clock, nextId, lastSaved>>
  /\ UNCHANGED <<arg, ret, jwks>>

\* handlerImpl.DeleteUserImage, lines 484-492: the user id of the request
Handler_DeleteUserImage_Begin(p, userID) ==
  /\ Free(p)
  /\ loc' = [loc EXCEPT ![p] = [NoLoc EXCEPT !.user = userID]]
  /\ hist' = [hist EXCEPT ![p] =
       [NoHist EXCEPT !.pre = UserRows(userImages, userID)]]
  /\ op' = [op EXCEPT ![p] = "delete"]
  /\ IF userID = ""
     THEN /\ pc' = [pc EXCEPT ![p] = "done"]
          /\ res' = [res EXCEPT ![p] = Result("ErrUnauthorized", NoUserImage)]
     ELSE /\ pc' = [pc EXCEPT ![p] = "hd_get"]
          /\ res' = [res EXCEPT ![p] = Result("none", NoUserImage)]
  /\ UNCHANGED <<storeVars, clock, nextId, nfaults, lastSaved>>
  /\ UNCHANGED <<arg, ret, jwks>>

\* lines 494-505: h.repository.GetUserImage(ctx, userID)
Handler_DeleteUserImage_Get(p) ==
  /\ pc[p] = "hd_get"
  /\ \E fail \in HandlerFaultChoices :
       /\ Charge(fail)
       /\ IF fail
          THEN Return(p, "ErrGetMetadata", NoUserImage)
          ELSE IF loc[p].user \notin DOMAIN userImages
          THEN Return(p, "ErrImageNotFound", NoUserImage)
          ELSE /\ loc' = [loc EXCEPT ![p] =
                    [@ EXCEPT !.cur = userImages[loc[p].user], !.idx = 1]]
               /\ pc' = [pc EXCEPT ![p] = "hd_obj"]
               /\ UNCHANGED res
  /\ UNCHANGED <<storeVars, clock, nextId, op, hist, lastSaved>>
  /\ UNCHANGED <<arg, ret, jwks>>

\* deleteImageFiles, lines 809-828: DeleteImage of sizes[idx]; the first
\* failure ends the request with ErrStorageFailed (lines 508-512)
Handler_DeleteImageFiles(p) ==
  /\ pc[p] = "hd_obj"
  /\ LET key == BuildImageKey("user", loc[p].user, loc[p].cur.GUID,
                              sizes[loc[p].idx]) IN
     \E fail \in HandlerFaultChoices :
       /\ Charge(fail)
       /\ hist' = [hist EXCEPT ![p] =
            [@ EXCEPT !.delIssued = @ \cup {key}, !.delErr = @ \/ fail]]
       /\ IF DeleteFilesAborts(fail)
          THEN /\ Return(p, "ErrStorageFailed", NoUserImage)
               /\ UNCHANGED objects
          ELSE /\ objects' = IF fail THEN objects ELSE DeleteImage(objects, key)
               /\ loc' = [loc EXCEPT ![p] = [@ EXCEPT !.idx = @ + 1]]
               /\ pc' = [pc EXCEPT ![p] =
                    IF loc[p].idx = Len(sizes) THEN "hd_row" ELSE "hd_obj"]
               /\ UNCHANGED res
  /\ UNCHANGED <<images, byOwner, userImages, clock, nextId, op, lastSaved>>
  /\ UNCHANGED <<arg, ret, jwks>>

\* lines 515-521: h.repository.DeleteUserImage(ctx, userID)
Handler_DeleteUserImage_Row(p) ==
  /\ pc[p] = "hd_row"
  /\ \E fail \in HandlerFaultChoices :
       /\ Charge(fail)
       /\ IF fail \/ loc[p].user \notin DOMAIN userImages
          THEN /\ Return(p, "ErrDeleteMetadata", NoUserImage)
               /\ UNCHANGED userImages
          ELSE /\ userImages' = DeleteUserImageRow(userImages, loc[p].user)
               /\ Return(p, "nil", NoUserImage)
  /\ UNCHANGED <<images, byOwner, objects, clock, nextId, op, hist, lastSaved>>
  /\ UNCHANGED <<arg, ret, jwks>>

\* the authenticated callers of the handler; "" is a request without user id
Callers == Users \cup {""}

NextHandler ==
  \E p \in Procs :
    \/ \E u \in Callers : Handler_UploadUserImage_Begin(p, u)
    \/ Handler_UploadImage(p)
    \/ Handler_CleanUp(p)
    \/ Handler_SaveUserImage(p)
    \/ \E u \in Callers : Handler_GetUserImage(p, u)
    \/ \E u \in Callers : Handler_DeleteUserImage_Begin(p, u)
    \/ Handler_DeleteUserImage_Get(p)
    \/ Handler_DeleteImageFiles(p)
    \/ Handler_DeleteUserImage_Row(p)

SpecHandler == Init /\ [][NextHandler]_vars

\* -------------------------------------------------- processor/processor.go
\* image payloads as sequences of bytes
MaxPayload == 14

JPEG == <<255, 216>>
PNG == <<137, 80, 78, 71, 13, 10, 26, 10>>
GIF87a == <<71, 73, 70, 56, 55, 97>>
GIF89a == <<71, 73, 70, 56, 57, 97>>
RIFF == <<82, 73, 70, 70>>
WEBP == <<87, 69, 66, 80>>

\* imgData[from:to] of Go: the bytes at the 0-based positions from .. to-1
Slice(imgData, from, to) == SubSeq(imgData, from + 1, to)

\* a variant of DetectImageFormat without the length check, for slices that
\* exist: it tells a format from the signature alone
DetectImageFormatNoLength(imgData) ==
  IF Len(imgData) >= 2 /\ Slice(imgData, 0, 2) = JPEG
  THEN [contentType |-> "image/jpeg", err |-> "nil"]
  ELSE IF Len(imgData) >= 8 /\ Slice(imgData, 0, 8) = PNG
  THEN [contentType |-> "image/png", err |-> "nil"]
  ELSE IF Len(imgData) >= 6 /\ Slice(imgData, 0, 6) \in {GIF87a, GIF89a}
  THEN [contentType |-> "image/gif", err |-> "nil"]
  ELSE IF Len(imgData) >= 12 /\ Slice(imgData, 0, 4) = RIFF
                             /\ Slice(imgData, 8, 12) = WEBP
  THEN [contentType |-> "image/webp", err |-> "nil"]
  ELSE [contentType |-> "", err |-> "unsupported image format"]

\* Processor.DetectImageFormat
DetectImageFormat(imgData) ==
  IF Len(imgData) < 12
  THEN [contentType |-> "", err |-> "image data too small to determine format"]
  ELSE IF Slice(imgData, 0, 2) = JPEG
  THEN [contentType |-> "image/jpeg", err |-> "nil"]
  ELSE IF Slice(imgData, 0, 8) = PNG
  THEN [contentType |-> "image/png", err |-> "nil"]
  ELSE IF Slice(imgData, 0, 6) = GIF87a \/ Slice(imgData, 0, 6) = GIF89a
  THEN [contentType |-> "image/gif", err |-> "nil"]
  ELSE IF Slice(imgData, 0, 4) = RIFF /\ Slice(imgData, 8, 12) = WEBP
  THEN [contentType |-> "image/webp", err |-> "nil"]
  ELSE [contentType |-> "", err |-> "unsupported image format"]

\* a variant of ValidateImageData that rejects a payload of exactly maxBytes
ValidateImageDataStrict(imageData, maxBytes) ==
  IF Len(imageData) = 0 THEN "ErrInvalidImage"
  ELSE IF Len(imageData) >= maxBytes THEN "ErrImageTooLarge"
  ELSE IF DetectImageFormat(imageData).err # "nil" THEN "ErrUnsupportedType"
  ELSE IF DetectImageFormat(imageData).contentType \notin {"image/jpeg", "image/png"}
  THEN "ErrUnsupportedType"
  ELSE "nil"

\* ImageService.UploadUserImage, lines 64-85, with s.maxSize = maxBytes
ValidateImageData(imageData, maxBytes) ==
  IF Len(imageData) = 0 THEN "ErrInvalidImage"
  ELSE IF Len(imageData) > maxBytes THEN "ErrImageTooLarge"
  ELSE IF DetectImageFormat(imageData).err # "nil" THEN "ErrUnsupportedType"
  ELSE IF DetectImageFormat(imageData).contentType # "image/jpeg"
          /\ DetectImageFormat(imageData).contentType # "image/png"
  THEN "ErrUnsupportedType"
  ELSE "nil"

\* the beginnings of the payloads: the signatures, whole, damaged and cut
Heads ==
  {<<>>, JPEG, <<255, 217>>, <<216, 255>>, PNG, <<137, 80, 78, 71, 13, 10, 26, 11>>,
   GIF87a, GIF89a, <<71, 73, 70, 56, 56, 97>>,
   RIFF \o <<1, 2, 3, 4>> \o WEBP, RIFF \o <<1, 2, 3, 4>> \o <<87, 65, 86, 69>>,
   <<82, 73, 70, 88>> \o <<1, 2, 3, 4>> \o WEBP, <<0>> \o JPEG}

Padding == [i \in 1..MaxPayload |-> 0]

\* every head, padded with zero bytes, cut to every length 0..MaxPayload
Payloads == {SubSeq(h \o Padding, 1, n) : h \in Heads, n \in 0..MaxPayload}

\* the maximum sizes SetMaxImageSize configures
MaxSizes == 0..MaxPayload

InitSniff ==
  /\ InitStores
  /\ arg \in [data : Payloads, maxBytes : MaxSizes]
  /\ ret = NoCall

Call_DetectImageFormat ==
  /\ ret = NoCall
  /\ ret' = [fn |-> "DetectImageFormat", out |-> DetectImageFormat(arg.data)]
  /\ UNCHANGED <<images, byOwner, objects, clock, nextId, nfaults, pc, op, loc,
                 res, hist, lastSaved, userImages, arg, jwks>>

Call_ValidateImageData ==
  /\ ret = NoCall
  /\ ret' = [fn |-> "ValidateImageData",
             out |-> ValidateImageData(arg.data, arg.maxBytes)]
  /\ UNCHANGED <<images, byOwner, objects, clock, nextId, nfaults, pc, op, loc,
                 res, hist, lastSaved, userImages, arg, jwks>>

NextSniff == Call_DetectImageFormat \/ Call_ValidateImageData

SpecSniff == InitSniff /\ [][NextSniff]_vars

\* --------------------------------- Processor.CalculateResizeDimensions
\* largest of the small image and target dimensions tried
MaxDim == 6

\* a variant of TruncatedProduct that stays one further below
TruncatedProductLow(target, num, den) == {((target * num) \div den) - 1}

\* int(float64(target) * (float64(num) / float64(den))) for positive integers:
\* the conversion truncates. When target*num/den is not an integer the float64
\* product is off by far less than its distance to the next integer, and the
\* result is the floor. When it is an integer q, the rounding of the division
\* can leave the product just below q (49 * (1.0/49) = 0.9999999999999999), and
\* the result is q or q - 1: both are kept.
TruncatedProduct(target, num, den) ==
  IF (target * num) % den = 0
  THEN {(target * num) \div den, ((target * num) \div den) - 1}
  ELSE {(target * num) \div den}

\* the pairs <<newWidth, newHeight>> the function can return
CalculateResizeDimensions(origWidth, origHeight, targetWidth, targetHeight) ==
  IF targetWidth > 0 /\ targetHeight > 0
  THEN {<<targetWidth, targetHeight>>}
  ELSE IF targetWidth > 0 /\ targetHeight = 0
  THEN {<<targetWidth, h>> : h \in TruncatedProduct(targetWidth, origHeight, origWidth)}
  ELSE IF targetHeight > 0 /\ targetWidth = 0
  THEN {<<w, targetHeight>> : w \in TruncatedProduct(targetHeight, origWidth, origHeight)}
  ELSE {<<origWidth, origHeight>>}

\* source dimensions and the dimensions of a size of the configuration
OrigSizes == (1..MaxDim) \cup {49, 800, 1200}
TargetSizes == (0..MaxDim) \cup {49, 50, 100, 800}

InitResize ==
  /\ InitStores
  /\ arg \in [origWidth : OrigSizes, origHeight : OrigSizes,
              targetWidth : TargetSizes, targetHeight : TargetSizes]
  /\ ret = NoCall

Call_CalculateResizeDimensions ==
  /\ ret = NoCall
  /\ \E out \in CalculateResizeDimensions(arg.origWidth, arg.origHeight,
                                         arg.targetWidth, arg.targetHeight) :
       ret' = [fn |-> "CalculateResizeDimensions", out |-> out]
  /\ UNCHANGED <<images, byOwner, objects, clock, nextId, nfaults, pc, op, loc,
                 res, hist, lastSaved, userImages, arg, jwks>>

NextResize == Call_CalculateResizeDimensions

SpecResize == InitResize /\ [][NextResize]_vars

\* ------------------------------------------------ storage/s3.go, on characters
\* strings as sequences of characters, to follow path.Join through arguments
\* that hold slashes and dots
MaxSeg == 2

Chars == {"a", "/", "."}

\* the strings of at most MaxSeg characters
Strs == UNION {[1..n -> Chars] : n \in 0..MaxSeg}

Slash == <<"/">>
Dot == <<".">>
DotDot == <<".", ".">>

\* strings.Join(elems, "/")
RECURSIVE JoinWithSlash(_)
JoinWithSlash(elems) ==
  IF elems = <<>> THEN <<>>
  ELSE IF Len(elems) = 1 THEN elems[1]
  ELSE elems[1] \o Slash \o JoinWithSlash(Tail(elems))

\* the elements of a path between its slashes; cur is the element being read
RECURSIVE SplitAtSlash(_, _)
SplitAtSlash(p, cur) ==
  IF p = <<>> THEN <<cur>>
  ELSE IF Head(p) = "/" THEN <<cur>> \o SplitAtSlash(Tail(p), <<>>)
  ELSE SplitAtSlash(Tail(p), Append(cur, Head(p)))

\* path.Clean of a relative path, element by element: empty elements and "."
\* are dropped, ".." removes the element before it unless there is none or it
\* is ".." itself; kept holds the elements kept so far
RECURSIVE CleanElements(_, _)
CleanElements(elems, kept) ==
  IF elems = <<>> THEN kept
  ELSE IF Head(elems) = <<>> \/ Head(elems) = Dot
  THEN CleanElements(Tail(elems), kept)
  ELSE IF Head(elems) = DotDot
  THEN IF kept # <<>> /\ kept[Len(kept)] # DotDot
       THEN CleanElements(Tail(elems), SubSeq(kept, 1, Len(kept) - 1))
       ELSE CleanElements(Tail(elems), Append(kept, DotDot))
  ELSE CleanElements(Tail(elems), Append(kept, Head(elems)))

\* path.Clean for a path that does not begin with a slash
PathClean(p) ==
  LET kept == CleanElements(SplitAtSlash(p, <<>>), <<>>) IN
  IF kept = <<>> THEN Dot ELSE JoinWithSlash(kept)

\* path.Join: the empty elements are ignored, the rest joined and cleaned
PathJoin(elems) ==
  LET nonEmpty == SelectSeq(elems, LAMBDA e : e # <<>>) IN
  IF nonEmpty = <<>> THEN <<>> ELSE PathClean(JoinWithSlash(nonEmpty))

\* a variant of BuildImageKeyChars that leaves the image id out of the key
BuildImageKeyCharsNoImage(imageType, ownerGUID, imageGUID, size) ==
  PathJoin(<<<<"i", "m", "a", "g", "e", "s">>, imageType, ownerGUID,
             size \o <<".", "j", "p", "g">>>>)

\* BuildImageKey on strings of characters
BuildImageKeyChars(imageType, ownerGUID, imageGUID, size) ==
  PathJoin(<<<<"i", "m", "a", "g", "e", "s">>, imageType, ownerGUID, imageGUID,
             size \o <<".", "j", "p", "g">>>>)

\* the arguments of the calls: two image types, two size names, every string
\* as owner and as image id
KeyArgs ==
  [imageType : {<<"u">>, <<"o">>}, ownerGUID : Strs, imageGUID : Strs,
   size : {<<"s">>, <<"m">>}]

InitKey ==
  /\ InitStores
  /\ arg \in KeyArgs
  /\ ret = NoCall

Call_BuildImageKey ==
  /\ ret = NoCall
  /\ ret' = [fn |-> "BuildImageKey",
             out |-> BuildImageKeyChars(arg.imageType, arg.ownerGUID,
                                        arg.imageGUID, arg.size)]
  /\ UNCHANGED <<images, byOwner, objects, clock, nextId, nfaults, pc, op, loc,
                 res, hist, lastSaved, userImages, arg, jwks>>

NextKey == Call_BuildImageKey

SpecKey == InitKey /\ [][NextKey]_vars

\* ---------------------------- S3Client.GetImageURL / MockS3.GetURL, on characters
MaxURLPart == 3

\* strings.TrimPrefix(str, "/")
TrimPrefixSlash(str) == IF str # <<>> /\ Head(str) = "/" THEN Tail(str) ELSE str

\* strings.TrimSuffix(str, "/")
TrimSuffixSlash(str) ==
  IF str # <<>> /\ str[Len(str)] = "/" THEN SubSeq(str, 1, Len(str) - 1) ELSE str

\* "https://%s.s3.%s.amazonaws.com/%s", shortened to its variable parts
NativeURL(bucket, region, key) ==
  <<"s", ":">> \o bucket \o <<".">> \o region \o Slash \o key

\* S3Client.GetImageURL
GetImageURLChars(cdn, bucket, region, key) ==
  IF cdn # <<>>
  THEN TrimSuffixSlash(cdn) \o Slash \o TrimPrefixSlash(key)
  ELSE NativeURL(bucket, region, TrimPrefixSlash(key))

\* MockS3.GetURL
GetURLChars(cdn, bucket, region, key) ==
  IF cdn # <<>>
  THEN cdn \o Slash \o key
  ELSE NativeURL(bucket, region, key)

\* CDN base URLs (the empty one: none configured) and keys
CdnBases == UNION {[1..n -> {"c", "/"}] : n \in 0..MaxURLPart}
URLKeys == UNION {[1..n -> {"k", "/"}] : n \in 1..MaxURLPart}

InitURL ==
  /\ InitStores
  /\ arg \in [cdn : CdnBases, bucket : {<<"b">>}, region : {<<"r">>}, key : URLKeys]
  /\ ret = NoCall

Call_GetImageURL ==
  /\ ret = NoCall
  /\ ret' = [fn |-> "GetImageURL",
             out |-> GetImageURLChars(arg.cdn, arg.bucket, arg.region, arg.key)]
  /\ UNCHANGED <<images, byOwner, objects, clock, nextId, nfaults, pc, op, loc,
                 res, hist, lastSaved, userImages, arg, jwks>>

Call_GetURL ==
  /\ ret = NoCall
  /\ ret' = [fn |-> "GetURL",
             out |-> GetURLChars(arg.cdn, arg.bucket, arg.region, arg.key)]
  /\ UNCHANGED <<images, byOwner, objects, clock, nextId, nfaults, pc, op, loc,
                 res, hist, lastSaved, userImages, arg, jwks>>

NextURL == Call_GetImageURL \/ Call_GetURL

SpecURL == InitURL /\ [][NextURL]_vars

\* ------------------------------------------------------- config/images.go
\* an image configuration is a sequence of image types [Name, Sizes], Sizes a
\* function from size names to <<Width, Height>>
requiredSizes == <<"small", "medium", "large">>

\* the first required size that s lacks, from position i on; "" when none
RECURSIVE FirstMissing(_, _)
FirstMissing(s, i) ==
  IF i > Len(requiredSizes) THEN ""
  ELSE IF requiredSizes[i] \notin DOMAIN s THEN requiredSizes[i]
  ELSE FirstMissing(s, i + 1)

\* a variant of ImageTypeErrors that does not look for the required sizes
ImageTypeErrorsNoRequired(t) ==
  IF t.Name = "" THEN {"has no name"}
  ELSE IF DOMAIN t.Sizes = {} THEN {"has no sizes defined"}
  ELSE LET bad == {n \in DOMAIN t.Sizes : t.Sizes[n][1] <= 0 \/ t.Sizes[n][2] < 0} IN
       IF bad = {} THEN {"nil"}
       ELSE {IF t.Sizes[n][1] <= 0 THEN "invalid width" ELSE "invalid height" : n \in bad}

\* config/images.go validateImageConfig, lines 70-96, for one image type: the
\* errors it can return ("nil" for none); the sizes are ranged over in map order
ImageTypeErrors(t) ==
  IF t.Name = "" THEN {"has no name"}
  ELSE IF DOMAIN t.Sizes = {} THEN {"has no sizes defined"}
  ELSE IF FirstMissing(t.Sizes, 1) # ""
  THEN {"missing required size " \o FirstMissing(t.Sizes, 1)}
  ELSE LET bad == {n \in DOMAIN t.Sizes : t.Sizes[n][1] <= 0 \/ t.Sizes[n][2] < 0} IN
       IF bad = {} THEN {"nil"}
       ELSE {IF t.Sizes[n][1] <= 0 THEN "invalid width" ELSE "invalid height" : n \in bad}

\* config/images.go validateImageConfig: the errors it can return for cfg
RECURSIVE ImagesErrorsFrom(_, _)
ImagesErrorsFrom(cfg, i) ==
  IF i > Len(cfg) THEN {"nil"}
  ELSE IF ImageTypeErrors(cfg[i]) # {"nil"} THEN ImageTypeErrors(cfg[i])
  ELSE ImagesErrorsFrom(cfg, i + 1)

validateImageConfig(cfg) ==
  IF Len(cfg) = 0 THEN {"no image types defined in configuration"}
  ELSE ImagesErrorsFrom(cfg, 1)

\* the other validateImageConfig (unnamed/part_002, lines 53-90) for the image
\* type at index i: name, duplicate name, sizes, each size, required sizes
TypeErrorsAt(cfg, i) ==
  LET t == cfg[i] IN
  IF t.Name = "" THEN {"has no name"}
  ELSE IF \E j \in 1..(i - 1) : cfg[j].Name = t.Name THEN {"duplicate image type name"}
  ELSE IF DOMAIN t.Sizes = {} THEN {"has no sizes defined"}
  ELSE LET bad == {n \in DOMAIN t.Sizes :
                     n = "" \/ (t.Sizes[n][1] <= 0 /\ t.Sizes[n][2] <= 0)} IN
       IF bad # {}
       THEN {IF n = "" THEN "has a size with no name" ELSE "invalid dimensions" : n \in bad}
       ELSE IF FirstMissing(t.Sizes, 1) # ""
       THEN {"missing required size " \o FirstMissing(t.Sizes, 1)}
       ELSE {"nil"}

RECURSIVE TypesErrorsFrom(_, _)
TypesErrorsFrom(cfg, i) ==
  IF i > Len(cfg) THEN {"nil"}
  ELSE IF TypeErrorsAt(cfg, i) # {"nil"} THEN TypeErrorsAt(cfg, i)
  ELSE TypesErrorsFrom(cfg, i + 1)

validateImageConfigTypes(cfg) ==
  IF Len(cfg) = 0 THEN {"no image types defined"}
  ELSE TypesErrorsFrom(cfg, 1)

\* the configurations validated: none, one or two image types, named or not,
\* with any of four size names and three kinds of dimensions
SizeNames == {"small", "medium", "large", "xl"}
Dims == {<<1, 0>>, <<0, 1>>, <<0, 0>>}
SizeSets == UNION {[names -> Dims] : names \in SUBSET SizeNames}
ImageTypes == [Name : {"", "user"}, Sizes : SizeSets]

\* the argument is any configuration of none, one or two image types
InitConfig ==
  /\ InitStores
  /\ arg \in {<<>>} \cup {<<t>> : t \in ImageTypes}
               \cup {<<t, u>> : t \in ImageTypes, u \in ImageTypes}
  /\ ret = NoCall

Call_validateImageConfig ==
  /\ ret = NoCall
  /\ \E err \in validateImageConfig(arg) :
       ret' = [fn |-> "validateImageConfig", out |-> err]
  /\ UNCHANGED <<images, byOwner, objects, clock, nextId, nfaults, pc, op, loc,
                 res, hist, lastSaved, userImages, arg, jwks>>

Call_validateImageConfigTypes ==
  /\ ret = NoCall
  /\ \E err \in validateImageConfigTypes(arg) :
       ret' = [fn |-> "validateImageConfigTypes", out |-> err]
  /\ UNCHANGED <<images, byOwner, objects, clock, nextId, nfaults, pc, op, loc,
                 res, hist, lastSaved, userImages, arg, jwks>>

NextConfig == Call_validateImageConfig \/ Call_validateImageConfigTypes

SpecConfig == InitConfig /\ [][NextConfig]_vars

\* ------------------------------- upload and delete under a configured size set
\* one UploadUserImage and then one DeleteUserImage of owner u1, no failure,
\* for the "user" image type arg of a configuration that validation accepted;
\* ret holds the position: the variants still to Put, then the index in sizes
ValidUserTypes ==
  {t \in ImageTypes :
     /\ t.Name = "user"
     /\ \/ validateImageConfig(<<t>>) = {"nil"}
        \/ validateImageConfigTypes(<<t>>) = {"nil"}}

InitSizes ==
  /\ InitStores
  /\ arg \in ValidUserTypes
  /\ ret = [fn |-> "UploadUserImage", todo |-> DOMAIN arg.Sizes, idx |-> 0]

\* UploadUserImage, lines 133-157: ProcessImage made one variant for each
\* configured size (processor.go 67-89); each is Put under its key
Sizes_Put ==
  /\ ret.fn = "UploadUserImage"
  /\ \E size \in ret.todo :
       /\ objects' = Put(objects, GenerateUserImageKey("u1", NewUUID(0), size),
                         "image/jpeg")
       /\ ret' = IF ret.todo = {size}
                 THEN [fn |-> "DeleteUserImage", todo |-> {}, idx |-> 1]
                 ELSE [ret EXCEPT !.todo = @ \ {size}]
  /\ UNCHANGED <<images, byOwner, clock, nextId, nfaults, pc, op, loc,
                 res, hist, lastSaved, userImages, arg, jwks>>

\* DeleteUserImage, lines 229-241: storage.Delete of the key of sizes[idx]
Sizes_Delete ==
  /\ ret.fn = "DeleteUserImage"
  /\ objects' = Delete(objects, GenerateUserImageKey("u1", NewUUID(0), sizes[ret.idx]))
  /\ ret' = IF ret.idx = Len(sizes)
            THEN [fn |-> "done", todo |-> {}, idx |-> 0]
            ELSE [ret EXCEPT !.idx = @ + 1]
  /\ UNCHANGED <<images, byOwner, clock, nextId, nfaults, pc, op, loc,
                 res, hist, lastSaved, userImages, arg, jwks>>

NextSizes == Sizes_Put \/ Sizes_Delete

SpecSizes == InitSizes /\ [][NextSizes]_vars

\* --------------------------------- the MockImageRepository, called directly
MaxSaves == 3

\* the image ids callers pass
RepoGUIDs == {NewUUID(n) : n \in 0..1}

\* MockImageRepository.SaveImage, lines 57-87, of a new image of the owner
Repo_SaveImage(guid, ownerGUID) ==
  /\ clock <= MaxSaves
  /\ LET rec == SaveImageRecord(NewImage(ownerGUID, "user", guid, 0), clock) IN
     /\ ~SaveImageRejects(rec)
     /\ images' = SaveImageById(images, rec)
     /\ byOwner' = SaveImageByOwner(byOwner, rec)
  /\ clock' = clock + 1
  /\ UNCHANGED <<objects, nextId, nfaults, pc, op, loc, res, hist, lastSaved,
                 userImages, arg, ret, jwks>>

\* MockImageRepository.DeleteImage, lines 121-136; ErrNotFound changes nothing
Repo_DeleteImage(guid) ==
  /\ IF guid \notin DOMAIN images
     THEN UNCHANGED <<images, byOwner>>
     ELSE /\ images' = DeleteImageById(images, guid)
          /\ byOwner' = DeleteImageByOwnerKey(byOwner, images[guid])
  /\ UNCHANGED <<objects, clock, nextId, nfaults, pc, op, loc, res, hist,
                 lastSaved, userImages, arg, ret, jwks>>

\* MockImageRepository.DeleteImageByOwner, lines 139-154
Repo_DeleteImageByOwner(ownerGUID) ==
  /\ IF ownerTypeKey(ownerGUID, "user") \notin DOMAIN byOwner
     THEN UNCHANGED <<images, byOwner>>
     ELSE LET image == byOwner[ownerTypeKey(ownerGUID, "user")] IN
          /\ images' = DeleteImageById(images, image.GUID)
          /\ byOwner' = DeleteImageByOwnerKey(byOwner, image)
  /\ UNCHANGED <<objects, clock, nextId, nfaults, pc, op, loc, res, hist,
                 lastSaved, userImages, arg, ret, jwks>>

\* a variant of ValidateImageAccess that does not compare the owner
ValidateImageAccessAnyOwner(imgs, userGUID, imageGUID) ==
  IF imageGUID \notin DOMAIN imgs THEN "ErrNotFound" ELSE "nil"

\* ImageService.ValidateImageAccess, image_service.go lines 257-273, over the
\* by-id map that repo.GetImageByID reads
ValidateImageAccess(imgs, userGUID, imageGUID) ==
  IF imageGUID \notin DOMAIN imgs THEN "ErrNotFound"
  ELSE IF imgs[imageGUID].OwnerGUID # userGUID THEN "ErrUnauthorized"
  ELSE "nil"

Call_ValidateImageAccess(userGUID, imageGUID) ==
  /\ ret' = [fn |-> "ValidateImageAccess", user |-> userGUID, guid |-> imageGUID,
             out |-> ValidateImageAccess(images, userGUID, imageGUID)]
  /\ UNCHANGED <<images, byOwner, objects, clock, nextId, nfaults, pc, op, loc,
                 res, hist, lastSaved, userImages, arg, jwks>>

NextRepo ==
  \/ \E g \in RepoGUIDs, u \in Owners : Repo_SaveImage(g, u)
  \/ \E g \in RepoGUIDs : Repo_DeleteImage(g)
  \/ \E u \in Owners : Repo_DeleteImageByOwner(u)
  \/ \E g \in RepoGUIDs, u \in Owners : Call_ValidateImageAccess(u, g)

SpecRepo == Init /\ [][NextRepo]_vars

\* ------------------------------------------------------------- auth/jwt.go
\* jwksCacheTTL, in ticks of the clock of this section
jwksCacheTTL == 2
MaxTime == 4
MaxFetches == 3

\* the rest of the state, which the requests of this section leave alone
UnchangedButJWKS ==
  UNCHANGED <<images, byOwner, objects, clock, nextId, nfaults, pc, op, loc, res,
              hist, lastSaved, userImages, arg, ret>>

\* line 182: jwksCache == nil || time.Since(jwksCacheTime) > jwksCacheTTL
NeedRefresh(j) == ~j.cache \/ j.now - j.cacheTime > jwksCacheTTL

\* getPublicKeyFromJWKS, lines 181-183: needRefresh is read under the read lock
JWKS_Check(p) ==
  /\ jwks.at[p] = "idle"
  /\ jwks' = [jwks EXCEPT !.at[p] = IF NeedRefresh(jwks) THEN "refresh" ELSE "lookup"]
  /\ UnchangedButJWKS

\* refreshJWKSCache, lines 220-257, under the write lock: http.Get, and when
\* it and the parsing succeed the cache and its time are replaced; when not,
\* getPublicKeyFromJWKS returns the error (lines 187-190)
JWKS_Refresh(p) ==
  /\ jwks.at[p] = "refresh"
  /\ jwks.fetches < MaxFetches
  /\ \E ok \in BOOLEAN :
       jwks' = IF ok
               THEN [jwks EXCEPT !.cache = TRUE, !.cacheTime = jwks.now,
                                 !.fetches = @ + 1, !.at[p] = "lookup"]
               ELSE [jwks EXCEPT !.fetches = @ + 1, !.at[p] = "idle"]
  /\ UnchangedButJWKS

\* lines 194-216: the key is looked up in the cache and the request returns
JWKS_Lookup(p) ==
  /\ jwks.at[p] = "lookup"
  /\ jwks' = [jwks EXCEPT !.at[p] = "idle"]
  /\ UnchangedButJWKS

\* time passes
JWKS_Tick ==
  /\ jwks.now < MaxTime
  /\ jwks' = [jwks EXCEPT !.now = @ + 1]
  /\ UnchangedButJWKS

NextJWKS ==
  \/ \E p \in Procs : JWKS_Check(p)
  \/ \E p \in Procs : JWKS_Refresh(p)
  \/ \E p \in Procs : JWKS_Lookup(p)
  \/ JWKS_Tick

SpecJWKS == Init /\ [][NextJWKS]_vars

\* ------------------------------------------------------------- properties
UserKey(u) == ownerTypeKey(u, "user")
Done(p) == pc[p] = "done"
\* no other request has run since the behaviour began
Alone(p) == \A q \in Procs \ {p} : pc[q] = "idle"
Quiescent == \A p \in Procs : Ready(p)
VariantKeys(u, guid) == {GenerateUserImageKey(u, guid, s) : s \in ConfigSizes}
ObjectsPresent(rec) == VariantKeys(rec.OwnerGUID, rec.GUID) \subseteq DOMAIN objects
Complete(rec) == rec.SmallURL # "" /\ rec.MediumURL # "" /\ rec.LargeURL # ""

\* C1: an upload whose Put failed after it had written some variants has asked
\* the storage to delete every key it wrote, and (no other request running)
\* the owner's rows are those it had when the upload began.
C1_PutFailureCompensated ==
  \A p \in Procs :
    (Done(p) /\ op[p] = "upload" /\ hist[p].ioFail = "put" /\ hist[p].written # {})
      => /\ hist[p].written \subseteq hist[p].delIssued
         /\ Alone(p) => RowsOf(images, loc[p].user) = hist[p].pre

\* C2: an upload whose SaveImage failed after all variants were Put has left
\* the owner's earlier record in the repository with all its objects stored,
\* and has asked the storage to delete each of the keys it wrote.
C2_SaveFailureCompensated ==
  \A p \in Procs :
    (Done(p) /\ op[p] = "upload" /\ hist[p].ioFail = "save")
      => /\ hist[p].written \subseteq hist[p].delIssued
         /\ Alone(p) => \A r \in hist[p].pre :
                           r \in RowsOf(images, loc[p].user) /\ ObjectsPresent(r)

\* C3: while an upload for an owner who had a record is in flight (its new
\* record is not saved yet), nothing of the old record is deleted and a Get
\* for the owner finds a record.
C3_NoWindowWithoutRecord ==
  \A p \in Procs :
    (op[p] = "upload" /\ ~Ready(p) /\ hist[p].pre # {} /\ Alone(p))
      => /\ UserKey(loc[p].user) \in DOMAIN byOwner
         /\ \A r \in hist[p].pre :
              r \in RowsOf(images, loc[p].user) /\ ObjectsPresent(r)

\* C4: after any sequence of uploads and deletes, one at a time, with injected
\* failures, the repository holds at most one record per owner.
C4_AtMostOneRecordPerOwner ==
  (Quiescent /\ \A p \in Procs : Alone(p) \/ pc[p] = "idle")
    => \A u \in Owners : Cardinality(RowsOf(images, u)) <= 1

\* C5: once two overlapping uploads of one owner have both returned success
\* (no failure injected), the repository holds exactly one record of the owner,
\* the one of the upload that saved last.
C5_LastSaveWins ==
  \A p \in Procs : \A q \in Procs \ {p} :
    (/\ Done(p) /\ Done(q) /\ op[p] = "upload" /\ op[q] = "upload"
     /\ loc[p].user = loc[q].user /\ hist[p].overlapped /\ hist[q].overlapped
     /\ res[p].err = "nil" /\ res[q].err = "nil" /\ nfaults = 0)
      => /\ Cardinality(RowsOf(images, loc[p].user)) = 1
         /\ \A r \in RowsOf(images, loc[p].user) : r.GUID = lastSaved[loc[p].user]

\* C6: every record in the repository, and every record an upload or a Get
\* returned, has its small, medium and large URL non-empty.
C6_RecordsComplete ==
  /\ \A g \in DOMAIN images : Complete(images[g])
  /\ \A k \in DOMAIN byOwner : Complete(byOwner[k])
  /\ \A p \in Procs :
       (Done(p) /\ op[p] \in {"upload", "get"} /\ res[p].err = "nil")
         => Complete(res[p].image)

\* a Get has returned a stored record
C6_Witness ==
  \E p \in Procs :
    /\ Done(p) /\ op[p] = "get" /\ res[p].err = "nil"
    /\ UserKey(loc[p].user) \in DOMAIN byOwner

\* C7: between uploads (one at a time, failures injected into Put, Delete and
\* SaveImage) every record in the repository has its three objects stored, and
\* an owner who had a record before an upload has one after it.
C7_NoLostRecordNoMissingObject ==
  (Quiescent /\ \A p \in Procs : op[p] \in {"none", "upload"})
    => /\ \A g \in DOMAIN images : ObjectsPresent(images[g])
       /\ \A p \in Procs :
            (Done(p) /\ Alone(p) /\ hist[p].pre # {})
              => RowsOf(images, loc[p].user) # {}

\* C8: after a second successful upload for the same owner, with no injected
\* failure and requests one at a time, the object store holds exactly the three
\* objects of the owner's current record: those of the superseded record are
\* gone (here for handlerImpl.UploadUserImage over its repository).
C8_SupersededObjectsDeleted ==
  \A p \in Procs :
    (/\ Done(p) /\ Alone(p) /\ nfaults = 0
     /\ op[p] = "upload" /\ res[p].err = "nil" /\ hist[p].pre # {}
     /\ loc[p].user \in DOMAIN userImages)
      => DOMAIN objects =
           {BuildImageKey("user", loc[p].user, userImages[loc[p].user].GUID, s) :
              s \in ConfigSizes}

\* C9: the record a successful upload stored in place of the owner's earlier
\* record has that record's createdAt and a later updatedAt.
C9_CreatedAtPreserved ==
  \A p \in Procs :
    (/\ Done(p) /\ op[p] = "upload" /\ res[p].err = "nil" /\ Alone(p)
     /\ hist[p].pre # {} /\ UserKey(loc[p].user) \in DOMAIN byOwner)
      => \A r \in hist[p].pre :
           /\ byOwner[UserKey(loc[p].user)].CreatedAt = r.CreatedAt
           /\ byOwner[UserKey(loc[p].user)].UpdatedAt > r.UpdatedAt

\* C10: an upload during which a storage delete of the previous record's
\* objects reported an error, and whose Puts and SaveImage did not fail,
\* returns success with the new record, which the repository then holds.
C10_DeleteFailureNotFatal ==
  [][\A p \in Procs :
       (/\ pc[p] # "done" /\ pc'[p] = "done" /\ op'[p] = "upload"
        /\ hist'[p].delErr /\ hist'[p].ioFail = "none")
         => /\ res'[p].err = "nil"
            /\ UserKey(loc'[p].user) \in DOMAIN byOwner'
            /\ ToUserImage(byOwner'[UserKey(loc'[p].user)]) = res'[p].image
            /\ res'[p].image.ImageGUID \notin {r.GUID : r \in hist'[p].pre}]_vars

\* an upload returned success although a delete of the old objects had failed
C10_Witness ==
  \E p \in Procs :
    /\ Done(p) /\ op[p] = "upload" /\ hist[p].delErr /\ res[p].err = "nil"

\* C11: a Delete whose lookup finds no record of the owner returns NotFound at
\* that step, has asked the object store for nothing, and leaves the metadata
\* store and the object store as they were.
C11_DeleteNotFound ==
  [][\A p \in Procs :
       (/\ pc[p] = "del_get" /\ op[p] = "delete" /\ pc'[p] # "del_get"
        /\ UserKey(loc[p].user) \notin DOMAIN byOwner
        /\ nfaults' = nfaults)
         => /\ pc'[p] = "done"
            /\ res'[p].err = "ErrNotFound"
            /\ hist'[p].delIssued = {} /\ hist'[p].written = {}
            /\ storeVars' = storeVars]_vars

\* a Delete answered NotFound while objects of another record stay in the store
C11_Witness ==
  \E p \in Procs :
    /\ Done(p) /\ op[p] = "delete" /\ res[p].err = "ErrNotFound"
    /\ hist[p].delIssued = {}
    /\ DOMAIN objects # {}

\* C12: when a Delete comes to the metadata delete, it has asked the object
\* store to delete every variant key of the record it fetched, whether or not
\* those deletes failed; and when the metadata delete then succeeds, the Delete
\* returns success, storage failures notwithstanding.
C12_DeleteAttemptsAllVariants ==
  [][\A p \in Procs :
       (pc[p] = "del_row" /\ op[p] = "delete" /\ pc'[p] = "done")
         => /\ hist[p].delIssued = VariantKeys(loc[p].user, loc[p].cur.GUID)
            /\ (loc[p].cur.GUID \in DOMAIN images /\ nfaults' = nfaults)
                 => /\ res'[p].err = "nil"
                    /\ loc[p].cur.GUID \notin DOMAIN images']_vars

\* a Delete that returned success although one of its storage deletes failed
C12_Witness ==
  \E p \in Procs :
    /\ Done(p) /\ op[p] = "delete" /\ res[p].err = "nil" /\ hist[p].delErr
    /\ Cardinality(hist[p].delIssued) = Len(sizes)

\* C13: a Delete returns success only at a step that leaves the metadata store
\* without the row it fetched and without an entry for the owner; and when the
\* metadata delete fails, the Delete returns an error and the metadata store is
\* as it was, the row included, whatever happened to the objects.
C13_DeleteSuccessMeansRowGone ==
  [][\A p \in Procs :
       (op[p] = "delete" /\ pc[p] # "done" /\ pc'[p] = "done")
         => /\ res'[p].err = "nil"
                 => /\ pc[p] \in {"del_row", "hd_row"}
                    /\ loc[p].cur.GUID \notin DOMAIN images'
                    /\ UserKey(loc[p].user) \notin DOMAIN byOwner'
                    /\ loc[p].user \notin DOMAIN userImages'
            /\ (pc[p] \in {"del_row", "hd_row"} /\ nfaults' # nfaults)
                 => /\ res'[p].err \notin {"nil", "none"}
                    /\ <<images, byOwner, userImages>>' =
                         <<images, byOwner, userImages>>]_vars

\* a Delete that removed the three objects, failed on the metadata delete and
\* returned the error, the owner's row still being there
C13_Witness ==
  \E p \in Procs :
    /\ Done(p) /\ op[p] = "delete" /\ res[p].err = "ErrDeleteMetadata"
    /\ UserKey(loc[p].user) \in DOMAIN byOwner
    /\ Cardinality(hist[p].delIssued) = Len(sizes)
    /\ hist[p].delIssued \cap DOMAIN objects = {}

\* C14: in the handler's DeleteUserImage, the step at which the storage delete
\* of a variant fails ends the request with status 500 and leaves the
\* repository as it was: the user's record is not deleted.
C14_HandlerStorageErrorKeepsRecord ==
  [][\A p \in Procs :
       (pc[p] = "hd_obj" /\ ~hist[p].delErr /\ hist'[p].delErr)
         => /\ pc'[p] = "done"
            /\ HandlerStatus(res'[p].err) = 500
            /\ userImages' = userImages]_vars

\* a handler Delete answered with the storage error, the record still there
C14_Witness ==
  \E p \in Procs :
    /\ Done(p) /\ op[p] = "delete" /\ res[p].err = "ErrStorageFailed"
    /\ hist[p].delErr
    /\ loc[p].user \in DOMAIN userImages

\* C15: an upload whose payload fails validation, dimension reading or
\* rendering takes one step only: it returns that error, has asked for no Put
\* and no Delete, and leaves the metadata store and the object store as they
\* were, the owner's earlier record and objects included.
C15_InvalidUploadWritesNothing ==
  [][\A p \in Procs :
       (/\ op'[p] = "upload" /\ hist'[p].valErr # "nil"
        /\ <<pc[p], loc[p], hist[p]>> # <<pc'[p], loc'[p], hist'[p]>>)
         => /\ pc'[p] = "done"
            /\ res'[p].err = hist'[p].valErr
            /\ hist'[p].written = {} /\ hist'[p].delIssued = {}
            /\ storeVars' = storeVars]_vars

\* an upload rejected for its payload while the owner has a record and objects
C15_Witness ==
  \E p \in Procs :
    /\ Done(p) /\ op[p] = "upload" /\ res[p].err = "ErrProcessingFailed"
    /\ hist[p].pre # {}
    /\ UserKey(loc[p].user) \in DOMAIN byOwner
    /\ ObjectsPresent(byOwner[UserKey(loc[p].user)])

\* C16: for every payload and configured maximum the validation of an upload
\* answers InvalidImage for the empty payload; else ImageTooLarge when the
\* payload is longer than the maximum, and not for a payload of exactly the
\* maximum; else UnsupportedType when the sniffed content type is neither
\* image/jpeg nor image/png (GIF and WEBP included); else it passes.
C16_ValidationResult ==
  ret.fn = "ValidateImageData" =>
    LET n == Len(arg.data)
        sniffed == DetectImageFormat(arg.data).contentType IN
    /\ n = 0 => ret.out = "ErrInvalidImage"
    /\ (n > 0 /\ n > arg.maxBytes) => ret.out = "ErrImageTooLarge"
    /\ (n > 0 /\ n = arg.maxBytes) => ret.out # "ErrImageTooLarge"
    /\ (n > 0 /\ n <= arg.maxBytes /\ sniffed \notin {"image/jpeg", "image/png"})
         => ret.out = "ErrUnsupportedType"
    /\ (n > 0 /\ n <= arg.maxBytes /\ sniffed \in {"image/jpeg", "image/png"})
         => ret.out = "nil"

\* a JPEG payload of exactly the maximum length that passed
C16_Witness ==
  /\ ret.fn = "ValidateImageData" /\ ret.out = "nil"
  /\ Len(arg.data) = arg.maxBytes
  /\ DetectImageFormat(arg.data).contentType = "image/jpeg"

\* C17: an upload in which a Put failed returns StorageFailed, whether its
\* compensating deletes succeeded or failed; and no compensating delete is
\* issued a second time for the same key.
C17_PutErrorIsAuthoritative ==
  [][\A p \in Procs :
       /\ (op'[p] = "upload" /\ pc[p] # "done" /\ pc'[p] = "done"
            /\ hist'[p].ioFail = "put")
             => res'[p].err = "ErrStorageFailed"
       /\ (pc[p] = "h_undo" /\ <<pc[p], loc[p]>> # <<pc'[p], loc'[p]>>)
             => /\ hist[p].delIssued # hist'[p].delIssued
                /\ hist'[p].delIssued \subseteq hist[p].written]_vars

\* an upload whose Put failed and whose compensating delete failed as well
C17_Witness ==
  \E p \in Procs :
    /\ Done(p) /\ op[p] = "upload" /\ hist[p].ioFail = "put" /\ hist[p].delErr
    /\ res[p].err = "ErrStorageFailed"

\* n/d rounded half away from zero, for n >= 0 and d > 0
RoundHalfAway(n, d) == (2 * n + d) \div (2 * d)

\* C18: for positive source dimensions and target dimensions >= 0 the planned
\* dimensions are the target when both are given; the given one and the other
\* scaled by the aspect ratio, rounded half away from zero, when one is given;
\* the source dimensions when none is: 1200x800 gives (50,33) for width 50,
\* (100,67) for width 100 and (800,800) for 800x800.
C18_PlanDimensionsRounds ==
  ret.fn = "CalculateResizeDimensions" =>
    ret.out =
      IF arg.targetWidth > 0 /\ arg.targetHeight > 0
      THEN <<arg.targetWidth, arg.targetHeight>>
      ELSE IF arg.targetWidth > 0
      THEN <<arg.targetWidth,
             RoundHalfAway(arg.targetWidth * arg.origHeight, arg.origWidth)>>
      ELSE IF arg.targetHeight > 0
      THEN <<RoundHalfAway(arg.targetHeight * arg.origWidth, arg.origHeight),
             arg.targetHeight>>
      ELSE <<arg.origWidth, arg.origHeight>>

\* C19: for positive source dimensions and a size with exactly one positive
\* dimension, the dimension derived for the other differs from the exact
\* aspect-preserving value, target * num / den, by at most one pixel.
C19_DerivedWithinOnePixel ==
  ret.fn = "CalculateResizeDimensions" =>
    /\ (arg.targetWidth > 0 /\ arg.targetHeight = 0)
         => LET exactNum == arg.targetWidth * arg.origHeight
                scaled == ret.out[2] * arg.origWidth IN
            /\ scaled - exactNum <= arg.origWidth
            /\ exactNum - scaled <= arg.origWidth
    /\ (arg.targetHeight > 0 /\ arg.targetWidth = 0)
         => LET exactNum == arg.targetHeight * arg.origWidth
                scaled == ret.out[1] * arg.origHeight IN
            /\ scaled - exactNum <= arg.origHeight
            /\ exactNum - scaled <= arg.origHeight

\* a derived height whose exact value is not a whole number
C19_Witness ==
  /\ ret.fn = "CalculateResizeDimensions"
  /\ arg.targetWidth > 0 /\ arg.targetHeight = 0
  /\ (arg.targetWidth * arg.origHeight) % arg.origWidth # 0
  /\ ret.out[2] * arg.origWidth < arg.targetWidth * arg.origHeight

\* the bytes of d from the 1-based position i on are those of sig
StartsAt(d, i, sig) ==
  /\ Len(d) >= i + Len(sig) - 1
  /\ \A k \in 1..Len(sig) : d[i + k - 1] = sig[k]

\* C20: DetectFormat answers an error, and no content type, for every input
\* shorter than 12 bytes, also one that begins with a signature, and for every
\* input of 12 bytes or more that matches no signature; for 12 bytes or more
\* it answers image/jpeg for FF D8, image/png for the 8-byte PNG signature,
\* image/gif for GIF87a and GIF89a, image/webp for RIFF at 0-3 with WEBP at 8-11.
C20_DetectFormat ==
  ret.fn = "DetectImageFormat" =>
    LET d == arg.data
        isJPEG == StartsAt(d, 1, <<255, 216>>)
        isPNG == StartsAt(d, 1, <<137, 80, 78, 71, 13, 10, 26, 10>>)
        isGIF == StartsAt(d, 1, <<71, 73, 70, 56, 55, 97>>)
                   \/ StartsAt(d, 1, <<71, 73, 70, 56, 57, 97>>)
        isWEBP == StartsAt(d, 1, <<82, 73, 70, 70>>)
                    /\ StartsAt(d, 9, <<87, 69, 66, 80>>)
        failed == ret.out.err # "nil" /\ ret.out.contentType = "" IN
    /\ Len(d) < 12 => failed
    /\ (Len(d) >= 12 /\ isJPEG) => ret.out = [contentType |-> "image/jpeg", err |-> "nil"]
    /\ (Len(d) >= 12 /\ isPNG) => ret.out = [contentType |-> "image/png", err |-> "nil"]
    /\ (Len(d) >= 12 /\ isGIF) => ret.out = [contentType |-> "image/gif", err |-> "nil"]
    /\ (Len(d) >= 12 /\ isWEBP) => ret.out = [contentType |-> "image/webp", err |-> "nil"]
    /\ (Len(d) >= 12 /\ ~isJPEG /\ ~isPNG /\ ~isGIF /\ ~isWEBP) => failed

\* an input of fewer than 12 bytes that begins with the PNG signature: an error
C20_Witness ==
  /\ ret.fn = "DetectImageFormat"
  /\ Len(arg.data) < 12
  /\ StartsAt(arg.data, 1, <<137, 80, 78, 71, 13, 10, 26, 10>>)
  /\ ret.out.err # "nil"

\* images/{imageType}/{ownerGUID}/{imageGUID}/{size}.jpg, character by character
KeyFormat(a) ==
  <<"i", "m", "a", "g", "e", "s">> \o Slash \o a.imageType \o Slash
    \o a.ownerGUID \o Slash \o a.imageGUID \o Slash \o a.size
    \o <<".", "j", "p", "g">>

\* a non-empty string without slash that is neither "." nor ".."
IsSegment(str) ==
  /\ str # <<>> /\ str # Dot /\ str # DotDot
  /\ \A i \in 1..Len(str) : str[i] # "/"

SegmentArgs == {a \in KeyArgs : IsSegment(a.ownerGUID) /\ IsSegment(a.imageGUID)}

\* C21 as stated: for all arguments the key is
\* images/{ownerType}/{ownerId}/{imageId}/{variantName}.jpg, and no other
\* argument tuple gives the same key.
C21_BuildKeyAlways ==
  ret.fn = "BuildImageKey" =>
    /\ ret.out = KeyFormat(arg)
    /\ \A other \in KeyArgs \ {arg} :
         BuildImageKeyChars(other.imageType, other.ownerGUID, other.imageGUID,
                            other.size) # ret.out

\* C21 amended: for arguments that are path segments (non-empty, without
\* slash, neither "." nor "..") the key is
\* images/{ownerType}/{ownerId}/{imageId}/{variantName}.jpg, and no other
\* tuple of such arguments gives the same key.
C21_BuildKeyOnSegments ==
  (ret.fn = "BuildImageKey" /\ arg \in SegmentArgs) =>
    /\ ret.out = KeyFormat(arg)
    /\ \A other \in SegmentArgs \ {arg} :
         BuildImageKeyChars(other.imageType, other.ownerGUID, other.imageGUID,
                            other.size) # ret.out

\* a key built from an owner and an image id that are segments holding a dot
C21_Witness ==
  /\ ret.fn = "BuildImageKey" /\ arg \in SegmentArgs
  /\ arg.ownerGUID = <<"a", ".">> /\ arg.imageGUID = <<".", "a">>
  /\ ret.out = KeyFormat(arg)

\* the URL the function named fn makes of a CDN base and a key
ResolveWith(fn, cdn, bucket, region, key) ==
  IF fn = "GetImageURL" THEN GetImageURLChars(cdn, bucket, region, key)
  ELSE GetURLChars(cdn, bucket, region, key)

\* C22: for a key without leading slash, the URL is the CDN base, one slash
\* and the key when a CDN base (here without trailing slash) is configured,
\* and the native bucket address of the key otherwise; and it is the same URL
\* when the CDN base is given with a trailing slash and when the key is given
\* with a leading slash.
C22_ResolveURL ==
  (/\ ret.fn \in {"GetImageURL", "GetURL"}
   /\ Head(arg.key) # "/"
   /\ arg.cdn # <<>> => arg.cdn[Len(arg.cdn)] # "/")
    => /\ ret.out = IF arg.cdn # <<>> THEN arg.cdn \o Slash \o arg.key
                    ELSE NativeURL(arg.bucket, arg.region, arg.key)
       /\ ResolveWith(ret.fn, arg.cdn, arg.bucket, arg.region, Slash \o arg.key)
            = ret.out
       /\ arg.cdn # <<>> =>
            /\ ResolveWith(ret.fn, arg.cdn \o Slash, arg.bucket, arg.region,
                            arg.key) = ret.out
            /\ ResolveWith(ret.fn, arg.cdn \o Slash, arg.bucket, arg.region,
                            Slash \o arg.key) = ret.out

\* the object keys of an owner's images
OwnerKeys(u) ==
  {GenerateUserImageKey(u, NewUUID(n), s) : n \in 0..MaxUploads, s \in ConfigSizes}

\* what the two stores hold for an owner
OwnerView(imgs, byO, objs, u) ==
  <<RowsOf(imgs, u),
    IF UserKey(u) \in DOMAIN byO THEN {byO[UserKey(u)]} ELSE {},
    {<<k, objs[k]>> : k \in OwnerKeys(u) \cap DOMAIN objs}>>

\* C23: a step of a request made for one owner leaves what the stores hold for
\* every other owner as it was, record and objects, and the record it reads is
\* its own owner's; so the other owner's record and objects are what they
\* would be without that request.
C23_OwnersIsolated ==
  [][\A p \in Procs :
       (<<pc[p], loc[p], hist[p]>> # <<pc'[p], loc'[p], hist'[p]>>)
         => \A b \in Owners \ {loc'[p].user} :
              /\ OwnerView(images', byOwner', objects', b)
                   = OwnerView(images, byOwner, objects, b)
              /\ loc'[p].cur.OwnerGUID # b
              /\ hist'[p].written \cap OwnerKeys(b) = {}
              /\ hist'[p].delIssued \cap OwnerKeys(b) = {}]_vars

\* both owners hold a record and its objects while a request of one of them
\* has deleted or written objects
C23_Witness ==
  /\ \A u \in Owners : /\ UserKey(u) \in DOMAIN byOwner
                        /\ ObjectsPresent(byOwner[UserKey(u)])
  /\ \E p \in Procs : Done(p) /\ op[p] = "upload" /\ res[p].err = "nil"
                       /\ hist[p].overlapped = FALSE
                       /\ \E q \in Procs \ {p} : Done(q) /\ loc[q].user # loc[p].user

\* C24: SaveImage is an upsert on the owner and type: when it succeeds for an
\* owner that has a row with another image id, that row is replaced, so that
\* afterwards the owner has exactly one row and the old image id is not found.
C24_SaveIsUpsertOnOwner ==
  [][\A p \in Procs :
       (pc[p] = "save" /\ pc'[p] = "done" /\ res'[p].err = "nil")
         => /\ Cardinality(RowsOf(images', loc[p].user)) = 1
            /\ \A r \in RowsOf(images, loc[p].user) :
                 r.GUID # loc[p].image.GUID => r.GUID \notin DOMAIN images']_vars

\* request slot p takes the one step of a GetUserImage
GetStep(p) ==
  /\ Free(p)
  /\ op'[p] = "get"
  /\ pc'[p] = "done"
  /\ \A q \in Procs \ {p} :
       <<pc'[q], op'[q], loc'[q], res'[q], hist'[q]>>
         = <<pc[q], op[q], loc[q], res[q], hist[q]>>

\* C25: GetUserImage changes neither the repository nor the storage; unless the
\* repository call itself fails, it returns ErrNotFound exactly when the
\* repository has no record of the owner, and otherwise the owner, image id
\* and three URLs of the stored record; while the record an upload saved is
\* the stored one, it returns the image id and URLs that upload returned.
C25_GetPassesThrough ==
  [][\A p \in Procs :
       GetStep(p) =>
         LET k == UserKey(loc'[p].user)
             out == res'[p] IN
         /\ UNCHANGED <<images, byOwner, objects>>
         /\ out.err = "ErrNotFound" => k \notin DOMAIN byOwner
         /\ nfaults' = nfaults =>
              IF k \notin DOMAIN byOwner
              THEN out.err = "ErrNotFound"
              ELSE /\ out.err = "nil"
                   /\ out.image.UserGUID = byOwner[k].OwnerGUID
                   /\ out.image.ImageGUID = byOwner[k].GUID
                   /\ out.image.SmallURL = byOwner[k].SmallURL
                   /\ out.image.MediumURL = byOwner[k].MediumURL
                   /\ out.image.LargeURL = byOwner[k].LargeURL
                   /\ \A q \in Procs :
                        (/\ Done(q) /\ op[q] = "upload" /\ res[q].err = "nil"
                         /\ loc[q].user = loc'[p].user
                         /\ res[q].image.ImageGUID = byOwner[k].GUID)
                          => /\ out.image.ImageGUID = res[q].image.ImageGUID
                             /\ out.image.SmallURL = res[q].image.SmallURL
                             /\ out.image.MediumURL = res[q].image.MediumURL
                             /\ out.image.LargeURL = res[q].image.LargeURL]_vars

\* a GetUserImage has returned the record that a finished upload returned
C25_Witness ==
  \E p \in Procs : \E q \in Procs \ {p} :
    /\ Done(p) /\ op[p] = "get" /\ res[p].err = "nil"
    /\ Done(q) /\ op[q] = "upload" /\ res[q].err = "nil"
    /\ res[p].image.ImageGUID = res[q].image.ImageGUID
    /\ res[p].image.SmallURL = res[q].image.SmallURL
    /\ res[p].image.SmallURL # ""

\* a GetUserImage has returned ErrNotFound after the record was deleted
C25_WitnessNotFound ==
  \E p \in Procs : \E q \in Procs \ {p} :
    /\ Done(p) /\ op[p] = "get" /\ res[p].err = "ErrNotFound"
    /\ Done(q) /\ op[q] = "delete" /\ res[q].err = "nil"

\* C26: a request of the handler's UploadUserImage, GetUserImage or
\* DeleteUserImage without user id is answered 401 at once, and its step
\* leaves the objects and the records of every user as they were and draws no
\* image id.
C26_UnauthorizedWritesNothing ==
  [][\A p \in Procs :
       (loc'[p].user = "" /\ pc'[p] # "idle")
         => /\ pc'[p] = "done"
            /\ res'[p].err = "ErrUnauthorized"
            /\ HandlerStatus(res'[p].err) = 401
            /\ hist'[p].written = {} /\ hist'[p].delIssued = {}
            /\ (<<op'[p], res'[p], loc'[p], hist'[p]>> # <<op[p], res[p], loc[p], hist[p]>>)
                 => UNCHANGED <<images, byOwner, objects, userImages, nextId, clock>>]_vars

\* requests without user id were answered 401 while a user's record and its
\* objects are stored
C26_Witness ==
  /\ \E p \in Procs : \E q \in Procs \ {p} :
       /\ Done(p) /\ loc[p].user = "" /\ op[p] = "upload"
       /\ Done(q) /\ loc[q].user = "" /\ op[q] = "delete"
       /\ HandlerStatus(res[p].err) = 401 /\ HandlerStatus(res[q].err) = 401
  /\ \E u \in DOMAIN userImages :
       {BuildImageKey("user", u, userImages[u].GUID, z) : z \in ConfigSizes}
         \subseteq DOMAIN objects

\* C27: a PUT repeated with the same body is idempotent: when an upload has
\* succeeded for an owner whose record came from an earlier upload of a payload
\* of the same format (no failure, no other request meanwhile), the record has
\* the image id and URLs it had before, and the objects of that record are there.
C27_RepeatedUploadIdempotent ==
  \A p \in Procs :
    (/\ Done(p) /\ op[p] = "upload" /\ res[p].err = "nil"
     /\ nfaults = 0 /\ ~hist[p].overlapped
     /\ \A q \in Procs \ {p} : Ready(q)
     /\ UserKey(loc[p].user) \in DOMAIN byOwner
     /\ byOwner[UserKey(loc[p].user)].GUID = res[p].image.ImageGUID)
      => \A r \in hist[p].pre :
           r.ContentType = byOwner[UserKey(loc[p].user)].ContentType
             => /\ res[p].image.ImageGUID = r.GUID
                /\ res[p].image.SmallURL = r.SmallURL
                /\ res[p].image.MediumURL = r.MediumURL
                /\ res[p].image.LargeURL = r.LargeURL
                /\ ObjectsPresent(r)

\* the stage an upload is in at each of its positions: validated and clearing
\* the earlier image (1), uploading (2), committing (3), returned (4)
StageOf(c) ==
  IF c \in {"del_get", "del_obj", "del_row"} THEN 1
  ELSE IF c = "put" THEN 2
  ELSE IF c = "save" THEN 3
  ELSE 4

\* the steps of an upload go through the stages in order, and it returns
\* success from the commit only
C28_StagesInOrder ==
  [][\A p \in Procs :
       (op[p] = "upload" /\ ~Ready(p) /\ pc'[p] # pc[p])
         => /\ StageOf(pc[p]) <= StageOf(pc'[p])
            /\ (pc'[p] = "done" /\ res'[p].err = "nil") => pc[p] = "save"]_vars

\* C28: an upload goes through its stages in order and ends committed or
\* failed; when it returns an error after at least one Put succeeded, it has
\* by then asked the storage to delete every key it wrote.
C28_FailedAfterCompensation ==
  [][\A p \in Procs :
       (op[p] = "upload" /\ ~Ready(p) /\ pc'[p] # pc[p])
         => /\ StageOf(pc[p]) <= StageOf(pc'[p])
            /\ (pc'[p] = "done" /\ res'[p].err = "nil") => pc[p] = "save"
            /\ (pc'[p] = "done" /\ res'[p].err # "nil" /\ hist'[p].written # {})
                 => hist'[p].written \subseteq hist'[p].delIssued]_vars

\* the names of the variants an upload has Put so far
WrittenSizes(p) ==
  {z \in ConfigSizes :
     \E n \in 0..MaxUploads :
       \/ GenerateUserImageKey(loc[p].user, NewUUID(n), z) \in hist[p].written
       \/ BuildImageKey("user", loc[p].user, NewUUID(n), z) \in hist[p].written}

\* C29: the Puts of an upload come in one fixed order of the variant names:
\* two uploads that have made the same number of Puts have written the same
\* variants.
C29_PutOrderDeterministic ==
  \A p \in Procs : \A q \in Procs :
    (/\ op[p] = "upload" /\ op[q] = "upload"
     /\ Cardinality(WrittenSizes(p)) = Cardinality(WrittenSizes(q)))
      => WrittenSizes(p) = WrittenSizes(q)

\* request slot p takes a Put step of its upload
PutStep(p) ==
  /\ op[p] = "upload"
  /\ pc[p] \in {"put", "h_put"}
  /\ <<pc'[p], loc'[p]>> # <<pc[p], loc[p]>>

\* the keys of the three variants of an image, as the service and the handler
\* build them
AllVariantKeys(u, guid) ==
  {VariantKeys(u, guid),
   {BuildImageKey("user", u, guid, z) : z \in ConfigSizes}}

\* C30: no call is repeated within an upload: a Put that fails is the last Put
\* of the upload, a Put that succeeds writes one key the upload had not
\* written, with content type image/jpeg, the save is called once, and an
\* upload that returns success has Put exactly the three variant keys of its
\* image.
C30_NoRetry ==
  [][\A p \in Procs :
       /\ PutStep(p) =>
            IF hist'[p].ioFail = "put"
            THEN /\ pc'[p] \notin {"put", "h_put", "save", "h_save"}
                 /\ hist'[p].written = hist[p].written
                 /\ objects' = objects
            ELSE \E k \in hist'[p].written \ hist[p].written :
                   /\ hist'[p].written = hist[p].written \cup {k}
                   /\ k \in DOMAIN objects' /\ objects'[k] = "image/jpeg"
       /\ (pc[p] \in {"save", "h_save"} /\ pc'[p] # pc[p]) => pc'[p] = "done"
       /\ (op[p] = "upload" /\ ~Ready(p) /\ pc'[p] = "done" /\ res'[p].err = "nil")
            => /\ hist'[p].written
                    \in AllVariantKeys(loc'[p].user, res'[p].image.ImageGUID)
               /\ Cardinality(hist'[p].written) = 3]_vars

\* one upload has returned success after three Puts, another has returned
\* after a Put that failed
C30_Witness ==
  \E p \in Procs : \E q \in Procs \ {p} :
    /\ Done(p) /\ op[p] = "upload" /\ res[p].err = "nil"
    /\ Cardinality(hist[p].written) = 3
    /\ \A k \in hist[p].written : k \in DOMAIN objects /\ objects[k] = "image/jpeg"
    /\ Done(q) /\ op[q] = "upload" /\ hist[q].ioFail = "put"
    /\ Cardinality(hist[q].written) = 1

\* C31: a configuration that either validateImageConfig accepts has every
\* image type named, with a size set that is not empty and holds small, medium
\* and large; one that lacks any of the three for some type is rejected.
C31_AcceptedConfigComplete ==
  (ret.fn \in {"validateImageConfig", "validateImageConfigTypes"} /\ ret.out = "nil")
    => /\ Len(arg) > 0
       /\ \A i \in 1..Len(arg) :
            /\ arg[i].Name # ""
            /\ DOMAIN arg[i].Sizes # {}
            /\ {"small", "medium", "large"} \subseteq DOMAIN arg[i].Sizes

\* a configuration of two image types was accepted, and one whose second type
\* lacks a required size was rejected
C31_Witness ==
  /\ ret.fn = "validateImageConfig"
  /\ ret.out = "nil"
  /\ Len(arg) = 2
  /\ "xl" \in DOMAIN arg[2].Sizes

C31_WitnessRejected ==
  /\ ret.fn = "validateImageConfigTypes"
  /\ ret.out = "missing required size large"
  /\ Len(arg) = 2

\* every stored record has, for each variant, the URL of the key built from
\* its own owner and image id
URLsFromOwnKeys(rec) ==
  /\ rec.SmallURL = GetURL(GenerateUserImageKey(rec.OwnerGUID, rec.GUID, "small"))
  /\ rec.MediumURL = GetURL(GenerateUserImageKey(rec.OwnerGUID, rec.GUID, "medium"))
  /\ rec.LargeURL = GetURL(GenerateUserImageKey(rec.OwnerGUID, rec.GUID, "large"))

C33_DeleteRemovesEveryVariant ==
  ret.fn = "done" => DOMAIN objects = {}

\* C34: for a source of at least 1 x 1 and a size with a positive target
\* width or height, both dimensions CalculateResizeDimensions returns are at
\* least 1.
C34_DimensionsPositive ==
  (/\ ret.fn = "CalculateResizeDimensions"
   /\ arg.origWidth >= 1 /\ arg.origHeight >= 1
   /\ (arg.targetWidth > 0 \/ arg.targetHeight > 0))
    => ret.out[1] >= 1 /\ ret.out[2] >= 1

\* C35: the by-id map and the by-owner map of the MockImageRepository agree:
\* every record of the by-id map is the by-owner entry of its owner and type,
\* and every by-owner entry is in the by-id map.
C35_IndexesAgree ==
  /\ \A g \in DOMAIN images :
       LET k == ownerTypeKey(images[g].OwnerGUID, images[g].TypeName) IN
       k \in DOMAIN byOwner /\ byOwner[k].GUID = g
  /\ \A k \in DOMAIN byOwner :
       byOwner[k].GUID \in DOMAIN images /\ images[byOwner[k].GUID] = byOwner[k]

C37_FetchOnlyWhenStale ==
  [][jwks'.fetches # jwks.fetches => NeedRefresh(jwks)]_vars

====
